---- MODULE Spec2Model ----
(***************************************************************************)
(* A model of the rptcam path tracer: the renderer's progressive sampling  *)
(* loop (src/src/renderer.rs), its recursive radiance estimator and the    *)
(* thin-lens camera (src/src/camera/mod.rs, src/src/camera.rs).            *)
(*                                                                         *)
(* Real numbers are modelled exactly: a scalar is a rational <<n, d>> in   *)
(* lowest terms with d > 0, and <<0, 0>> stands for the floating-point NaN *)
(* that 0.0 / 0.0 produces.  A Color is a 3-tuple of scalars.              *)
(***************************************************************************)
EXTENDS Integers, Sequences, FiniteSets, TLC

\* ------------------------------------------------------------------ bounds
MaxSamples == 3
MaxInterval == 3
MaxWidth == 2
MaxHeight == 2
MaxSeed == 1

\* ------------------------------------------------------- program constants
\* Renderer::new: exposure_value: 0.0
ExposureValue == 0

\* --------------------------------------------------------------- rationals
Abs(a) == IF a < 0 THEN -a ELSE a

Min(a, b) == IF a < b THEN a ELSE b

RECURSIVE GCD(_, _)
GCD(a, b) == IF b = 0 THEN a ELSE GCD(b, a % b)

NaN == <<0, 0>>

IsNaN(q) == q[2] = 0

\* n / d as a real; 0/0 (and, here, any x/0) is NaN
Rat(n, d) ==
    IF d = 0 THEN NaN
    ELSE LET g == GCD(Abs(n), Abs(d))
             s == IF d < 0 THEN -1 ELSE 1
         IN  <<(s * n) \div g, (s * d) \div g>>

RInt(n) == <<n, 1>>

RAdd(p, q) ==
    IF IsNaN(p) \/ IsNaN(q) THEN NaN
    ELSE LET g == GCD(p[2], q[2])
         IN  Rat(p[1] * (q[2] \div g) + q[1] * (p[2] \div g), (p[2] \div g) * q[2])

RMul(p, q) ==
    IF IsNaN(p) \/ IsNaN(q) THEN NaN
    ELSE LET g1 == GCD(Abs(p[1]), q[2])
             g2 == GCD(Abs(q[1]), p[2])
         IN  Rat((p[1] \div g1) * (q[1] \div g2), (p[2] \div g2) * (q[2] \div g1))

RDiv(p, q) ==
    IF IsNaN(p) \/ IsNaN(q) THEN NaN
    ELSE Rat(p[1] * q[2], p[2] * q[1])

RNeg(p) == IF IsNaN(p) THEN NaN ELSE <<-p[1], p[2]>>

RLess(p, q) ==
    /\ ~IsNaN(p) /\ ~IsNaN(q)
    /\ LET g == GCD(p[2], q[2]) IN p[1] * (q[2] \div g) < q[1] * (p[2] \div g)

RLeq(p, q) ==
    /\ ~IsNaN(p) /\ ~IsNaN(q)
    /\ LET g == GCD(p[2], q[2]) IN p[1] * (q[2] \div g) <= q[1] * (p[2] \div g)

\* f64::min: the other operand when one is NaN
RMin(p, q) == IF IsNaN(p) THEN q ELSE IF IsNaN(q) THEN p ELSE IF RLess(q, p) THEN q ELSE p

RECURSIVE Pow2(_)
Pow2(e) == IF e = 0 THEN 1 ELSE 2 * Pow2(e - 1)

\* ------------------------------------------------------------------ colors
Black == <<RInt(0), RInt(0), RInt(0)>>

CAdd(a, b) == <<RAdd(a[1], b[1]), RAdd(a[2], b[2]), RAdd(a[3], b[3])>>

CMul(a, b) == <<RMul(a[1], b[1]), RMul(a[2], b[2]), RMul(a[3], b[3])>>

CScale(a, q) == <<RMul(a[1], q), RMul(a[2], q), RMul(a[3], q)>>

CDiv(a, q) == <<RDiv(a[1], q), RDiv(a[2], q), RDiv(a[3], q)>>

CInt(r, g, b) == <<RInt(r), RInt(g), RInt(b)>>

\* ----------------------------------------------------------------- vectors
\* glm::DVec3 as a 3-tuple of scalars
V3(a, b, c) == <<RInt(a), RInt(b), RInt(c)>>

VAdd(a, b) == <<RAdd(a[1], b[1]), RAdd(a[2], b[2]), RAdd(a[3], b[3])>>

VSub(a, b) == <<RAdd(a[1], RNeg(b[1])), RAdd(a[2], RNeg(b[2])), RAdd(a[3], RNeg(b[3]))>>

VScale(a, q) == <<RMul(a[1], q), RMul(a[2], q), RMul(a[3], q)>>

VDot(a, b) == RAdd(RAdd(RMul(a[1], b[1]), RMul(a[2], b[2])), RMul(a[3], b[3]))

VCross(a, b) ==
    <<RAdd(RMul(a[2], b[3]), RNeg(RMul(a[3], b[2]))),
      RAdd(RMul(a[3], b[1]), RNeg(RMul(a[1], b[3]))),
      RAdd(RMul(a[1], b[2]), RNeg(RMul(a[2], b[1])))>>

\* the largest k in lo..hi with k * k <= n, by bisection
RECURSIVE FloorSqrt(_, _, _)
FloorSqrt(n, lo, hi) ==
    IF lo >= hi THEN lo
    ELSE LET mid == (lo + hi + 1) \div 2
         IN  IF mid <= n \div mid THEN FloorSqrt(n, mid, hi) ELSE FloorSqrt(n, lo, mid - 1)

ISqrt(n) == IF n = 0 THEN 0 ELSE FloorSqrt(n, 1, n)

IsSquare(n) == n >= 0 /\ ISqrt(n) * ISqrt(n) = n

\* the scalars whose square root is a scalar of the model
HasSqrt(q) == ~IsNaN(q) /\ q[1] >= 0 /\ IsSquare(q[1]) /\ IsSquare(q[2])

\* f64::sqrt, exact where HasSqrt; the model takes no other square root
RSqrt(q) == IF HasSqrt(q) THEN <<ISqrt(q[1]), ISqrt(q[2])>> ELSE NaN

\* v.normalize() for a vector of rational length (the zero vector gives NaN)
VNormalize(v) == LET n == RSqrt(VDot(v, v)) IN <<RDiv(v[1], n), RDiv(v[2], n), RDiv(v[3], n)>>

GCD3(a, b, c) == GCD(GCD(Abs(a), Abs(b)), Abs(c))

\* v.normalize() as the direction of a Ray: the unit vector v / |v|, written as the
\* integer vector p without common factor that points along v.  Two unit vectors
\* are equal exactly when their p are equal, and p = (0, 0, -1) is the unit
\* vector (0, 0, -1) itself; the zero vector and NaN give <<0, 0, 0>>.
UnitDirection(v) ==
    IF IsNaN(v[1]) \/ IsNaN(v[2]) \/ IsNaN(v[3]) THEN <<0, 0, 0>>
    ELSE LET m == v[1][2] * v[2][2] * v[3][2]
             a == v[1][1] * (m \div v[1][2])
             b == v[2][1] * (m \div v[2][2])
             c == v[3][1] * (m \div v[3][2])
             g == GCD3(a, b, c)
         IN  IF g = 0 THEN <<0, 0, 0>> ELSE <<a \div g, b \div g, c \div g>>

RECURSIVE SumSeq(_)
SumSeq(s) == IF s = <<>> THEN 0 ELSE s[1] + SumSeq(Tail(s))

CeilDiv(a, b) == (a + b - 1) \div b

VARIABLES
    \* renderer configuration (builder fields)
    num_samples, width, height,
    \* the call being run and its argument
    entry, callback_interval,
    \* the driving thread
    pc, iteration, steps, colors, buffer,
    \* the row workers of the current parallel pass
    worker, rng, slot,
    \* history: chunk sizes, callback arguments, per-pixel sum of all samples
    chunks, calls, sampleSum,
    \* get_closest_hit: the ray's hit time on each object, the scan order, the loop
    \* position, the HitRecord's time, the object kept, and whether any intersect
    \* call returned true
    times, order, hidx, hrec, hit, anyTrue,
    \* trace_ray for one primary ray: the bounce limit and the scene; the position
    \* in the current invocation, its depth, the suspended callers, the invocation's
    \* material and terms so far, the light being sampled, the value returned;
    \* history: the invocations made, the invocation that returned last, the
    \* light sampled last
    max_bounces, objects, lights, tpc, num_bounces, frames, cur, li, ret,
    invocations, last, contrib,
    \* the thin-lens camera; cast_ray called at one screen point with two
    \* generators: the point, each generator before and after, each result
    camera, cpc, screen, rngA, rngB, castA, castB,
    \* Polygon::contains and the Poly arm of ApertureShape::sample: the polygon's
    \* vertices, the query point and the result of contains; the loop's position,
    \* the candidates rejected so far, the loop's rounds, the point returned
    pts, query, inside, ppc, rejected, rounds, sampled,
    \* whether the build checks integer overflow (debug) or wraps (release)
    overflow_checks,
    \* a lens and two calls of its lens_system: the distance and the surfaces of the
    \* latest call and of the one before it
    lens, lens_d, lens_sys, lens_prev, lpc,
    \* the physical camera, the operation applied to it last and the distance of its
    \* latest focus; one call of its cast_ray: the screen point, the colour channel,
    \* what the lens geometry does to each rear draw at each surface, the loop's
    \* position, the attempt's draw, surface index, ray, axial location and valid
    \* flag, the surfaces the attempt visited, the attempts made, the ray returned
    pcam, pop, lastFocus, phpc, screenpt, channel, optics, rear, surf, ray_p, ray_dir, axial_loc, valid, visited, attempts, pray,
    \* MonomialSurface::intersect: the surface, the ray, t_min, the record before the
    \* call, and the call's result and record after it
    msurf, mray, mtmin, mrec, mres, mpc,
    \* MonomialSurface::closest_point: the surface, the point, the bisection's l, r and
    \* round, and the point returned
    cp_surf, cp_point, cp_l, cp_r, cp_i, cp_out, cp_pc,
    \* get_color for one pixel: the image size, the pixel, the iterations asked for,
    \* the loop's round, the u32 numerators and the normalized pixel centre, the
    \* coordinates of the latest cast_ray call and the calls made
    px_w, px_h, px_x, px_y, px_iter, px_i, px_num, px_n, px_arg, px_casts, px_pc

renderVars == <<num_samples, width, height, entry, callback_interval, pc, iteration,
                steps, colors, buffer, worker, rng, slot, chunks, calls, sampleSum>>

hitVars == <<times, order, hidx, hrec, hit, anyTrue>>

traceVars == <<max_bounces, objects, lights, tpc, num_bounces, frames, cur, li, ret,
               invocations, last, contrib>>

camVars == <<camera, cpc, screen, rngA, rngB, castA, castB>>

polyVars == <<pts, query, inside, ppc, rejected, rounds, sampled, overflow_checks>>

lensVars == <<lens, lens_d, lens_sys, lens_prev, lpc>>

physVars == <<pcam, pop, lastFocus, phpc, screenpt, channel, optics, rear, surf, ray_p, ray_dir, axial_loc, valid, visited, attempts, pray>>

monoVars == <<msurf, mray, mtmin, mrec, mres, mpc>>

cpVars == <<cp_surf, cp_point, cp_l, cp_r, cp_i, cp_out, cp_pc>>

pxVars == <<px_w, px_h, px_x, px_y, px_iter, px_i, px_num, px_n, px_arg, px_casts, px_pc>>

vars == <<renderVars, hitVars, traceVars, camVars, polyVars, lensVars, physVars, monoVars, cpVars, pxVars>>

nonRenderVars == <<hitVars, traceVars, camVars, polyVars, lensVars, physVars, monoVars, cpVars, pxVars>>

nonHitVars == <<renderVars, traceVars, camVars, polyVars, lensVars, physVars, monoVars, cpVars, pxVars>>

nonTraceVars == <<renderVars, hitVars, camVars, polyVars, lensVars, physVars, monoVars, cpVars, pxVars>>

nonCamVars == <<renderVars, hitVars, traceVars, polyVars, lensVars, physVars, monoVars, cpVars, pxVars>>

nonPolyVars == <<renderVars, hitVars, traceVars, camVars, lensVars, physVars, monoVars, cpVars, pxVars>>

nonLensVars == <<renderVars, hitVars, traceVars, camVars, polyVars, physVars, monoVars, cpVars, pxVars>>

nonPhysVars == <<renderVars, hitVars, traceVars, camVars, polyVars, lensVars, monoVars, cpVars, pxVars>>

nonMonoVars == <<renderVars, hitVars, traceVars, camVars, polyVars, lensVars, physVars, cpVars, pxVars>>

nonCpVars == <<renderVars, hitVars, traceVars, camVars, polyVars, lensVars, physVars, monoVars, pxVars>>

nonPxVars == <<renderVars, hitVars, traceVars, camVars, polyVars, lensVars, physVars, monoVars, cpVars>>

\* ------------------------------------------------- per-pixel sampling
\* StdRng, abstracted to a small cyclic generator: a worker's stream is fixed by
\* its entropy seed, and every sample of get_color advances it.
RngStates == 0..MaxSeed

RngNext(r) == (r + 1) % (MaxSeed + 1)

\* The radiance trace_ray(camera.cast_ray(..), 0, rng) returns for one jittered
\* sample of pixel (x, y): a function of the pixel and of the generator's state.
SampleRadiance(x, y, r) == CInt(r % 2, (r + x) % 2, (r + y) % 2)

\* The loop of get_color: the sum of `i` samples added to acc, and the generator after it.
RECURSIVE SampleLoop(_, _, _, _, _)
SampleLoop(x, y, i, r, acc) ==
    IF i = 0 THEN [sum |-> acc, rng |-> r]
    ELSE SampleLoop(x, y, i - 1, RngNext(r), CAdd(acc, SampleRadiance(x, y, r)))

\* color / f64::from(iterations) * 2^exposure_value
get_color(x, y, iterations, r) ==
    LET l == SampleLoop(x, y, iterations, r, Black)
    IN  [color |-> CScale(CDiv(l.sum, RInt(iterations)), RInt(Pow2(ExposureValue))),
         sum |-> l.sum,
         rng |-> l.rng]

\* (0..width).map(|x| get_color(x, y, iterations, &mut rng)).collect(): one row,
\* pixel after pixel on the row's own generator.
RECURSIVE RowMap(_, _, _, _, _)
RowMap(y, x, w, iterations, r) ==
    IF x >= w THEN <<>>
    ELSE LET g == get_color(x, y, iterations, r)
         IN  <<g>> \o RowMap(y, x + 1, w, iterations, g.rng)

\* ------------------------------------------------------------- Buffer
\* Buffer::new(width, height, filter): no batch merged, every pixel black.
BufferNew(w, h) == [n |-> 0, mean |-> [i \in 1..(w * h) |-> Black]]

\* Buffer::add_samples(colors): merge one batch into the running per-pixel mean,
\* weighted by the number of batches merged so far (the call carries no other count).
add_samples(b, cs) ==
    [n |-> b.n + 1,
     mean |-> [i \in DOMAIN b.mean |->
                 IF i <= Len(cs)
                 THEN CDiv(CAdd(CScale(b.mean[i], RInt(b.n)), cs[i]), RInt(b.n + 1))
                 ELSE b.mean[i]]]

\* --------------------------------------------------------- the renderer
Rows == 0..(height - 1)

\* std::cmp::min(self.num_samples - iteration, callback_interval)
StepsNoMin(remaining, k) == k

Steps(remaining, k) == Min(remaining, k)

\* the first argument of callback(iteration, &buffer)
CallbackArgChunk == steps

CallbackArg == iteration

\* rayon's collect() returns once every row of the pass has been produced
AnyRowDone == \E y \in Rows : worker[y] = "done"

AllRowsDone == \A y \in Rows : worker[y] = "done"

\* the rows' outputs concatenated from the last row to the first
RECURSIVE FlattenReversed(_, _)
FlattenReversed(sl, y) == IF y >= height THEN <<>> ELSE FlattenReversed(sl, y + 1) \o sl[y]

\* flat_map(..).collect(): the rows' outputs, concatenated in row order
RECURSIVE Flatten(_, _)
Flatten(sl, y) == IF y >= height THEN <<>> ELSE sl[y] \o Flatten(sl, y + 1)

IdleWorkers == [y \in 0..(MaxHeight - 1) |-> "idle"]

NoSlots == [y \in 0..(MaxHeight - 1) |-> <<>>]

NoRng == [y \in 0..(MaxHeight - 1) |-> 0]

\* the components at rest
IdleRender ==
    /\ num_samples = 0 /\ width = 0 /\ height = 0 /\ entry = "none"
    /\ callback_interval = 0 /\ pc = "idle" /\ iteration = 0 /\ steps = 0
    /\ colors = <<>> /\ buffer = BufferNew(0, 0) /\ worker = IdleWorkers
    /\ rng = NoRng /\ slot = NoSlots /\ chunks = <<>> /\ calls = <<>>
    /\ sampleSum = <<>>

IdleTrace ==
    /\ max_bounces = 0 /\ objects = <<>> /\ lights = <<>> /\ tpc = "idle"
    /\ num_bounces = 0 /\ frames = <<>> /\ cur = <<>> /\ li = 0 /\ ret = <<>>
    /\ invocations = 0 /\ last = <<>> /\ contrib = <<>>

IdleCam ==
    /\ camera = <<>> /\ cpc = "idle" /\ screen = <<>> /\ rngA = 0 /\ rngB = 0
    /\ castA = <<>> /\ castB = <<>>

IdlePoly ==
    /\ pts = <<>> /\ query = <<>> /\ inside = "false" /\ ppc = "idle"
    /\ rejected = {} /\ rounds = 0 /\ sampled = <<>> /\ overflow_checks = FALSE

IdleLens ==
    /\ lens = <<>> /\ lens_d = RInt(0) /\ lens_sys = <<>> /\ lens_prev = <<>> /\ lpc = "idle"

IdlePhys ==
    /\ pcam = <<>> /\ pop = "idle" /\ lastFocus = <<>> /\ phpc = "idle" /\ screenpt = <<>>
    /\ channel = 0 /\ optics = <<>> /\ rear = 0 /\ surf = 0 /\ ray_p = <<>> /\ ray_dir = <<>>
    /\ axial_loc = RInt(0) /\ valid = TRUE /\ visited = <<>> /\ attempts = 0 /\ pray = <<>>

IdleMono ==
    /\ msurf = <<>> /\ mray = <<>> /\ mtmin = RInt(0) /\ mrec = <<>> /\ mres = <<>> /\ mpc = "idle"

IdleCp ==
    /\ cp_surf = <<>> /\ cp_point = <<>> /\ cp_l = RInt(0) /\ cp_r = RInt(0) /\ cp_i = 0
    /\ cp_out = <<>> /\ cp_pc = "idle"

IdlePx ==
    /\ px_w = 0 /\ px_h = 0 /\ px_x = 0 /\ px_y = 0 /\ px_iter = 0 /\ px_i = 0
    /\ px_num = <<>> /\ px_n = <<>> /\ px_arg = <<>> /\ px_casts = 0 /\ px_pc = "idle"

IdleHit ==
    /\ times = <<>> /\ order = <<>> /\ hidx = 0 /\ hrec = 0 /\ hit = 0 /\ anyTrue = FALSE

InitRender ==
    /\ num_samples \in 0..MaxSamples
    /\ width \in 1..MaxWidth
    /\ height \in 1..MaxHeight
    /\ entry \in {"render", "iterative_render"}
    /\ callback_interval \in IF entry = "render" THEN {0} ELSE 0..MaxInterval
    /\ pc = "enter"
    /\ iteration = 0
    /\ steps = 0
    /\ colors = <<>>
    /\ buffer = BufferNew(width, height)
    /\ worker = IdleWorkers
    /\ rng = NoRng
    /\ slot = NoSlots
    /\ chunks = <<>>
    /\ calls = <<>>
    /\ sampleSum = [i \in 1..(width * height) |-> Black]
    /\ IdleHit /\ IdleTrace /\ IdleCam /\ IdlePoly /\ IdleLens /\ IdlePhys /\ IdleMono /\ IdleCp /\ IdlePx

\* render(): sample(num_samples, &mut buffer) starts its parallel pass
RenderEnter ==
    /\ entry = "render" /\ pc = "enter"
    /\ steps' = num_samples
    /\ chunks' = Append(chunks, num_samples)
    /\ pc' = "par"
    /\ UNCHANGED <<num_samples, width, height, entry, callback_interval, iteration,
                   colors, buffer, worker, rng, slot, calls, sampleSum>>
    /\ UNCHANGED nonRenderVars

\* iterative_render(): let mut iteration = 0
IterativeEnter ==
    /\ entry = "iterative_render" /\ pc = "enter"
    /\ iteration' = 0
    /\ pc' = "while"
    /\ UNCHANGED <<num_samples, width, height, entry, callback_interval, steps,
                   colors, buffer, worker, rng, slot, chunks, calls, sampleSum>>
    /\ UNCHANGED nonRenderVars

\* the loop test; when it passes, steps is computed and sample(steps, ..) starts
\* its parallel pass.  A loop that never ends (callback_interval = 0) is followed
\* for MaxSamples + 1 rounds.
IterWhileCallbackFirst ==
    /\ pc = "while"
    /\ iteration < num_samples
    /\ Len(calls) <= MaxSamples
    /\ steps' = Steps(num_samples - iteration, callback_interval)
    /\ chunks' = Append(chunks, steps')
    /\ pc' = "callback"
    /\ UNCHANGED <<num_samples, width, height, entry, callback_interval, iteration,
                   colors, buffer, worker, rng, slot, calls, sampleSum>>
    /\ UNCHANGED nonRenderVars

IterWhile ==
    /\ pc = "while"
    /\ iteration < num_samples
    /\ Len(calls) <= MaxSamples
    /\ steps' = Steps(num_samples - iteration, callback_interval)
    /\ chunks' = Append(chunks, steps')
    /\ worker' = IdleWorkers
    /\ slot' = NoSlots
    /\ colors' = <<>>
    /\ pc' = "par"
    /\ UNCHANGED <<num_samples, width, height, entry, callback_interval, iteration,
                   buffer, rng, calls, sampleSum>>
    /\ UNCHANGED nonRenderVars

\* the loop test fails: iterative_render returns
IterExit ==
    /\ pc = "while"
    /\ ~(iteration < num_samples)
    /\ pc' = "done"
    /\ UNCHANGED <<num_samples, width, height, entry, callback_interval, iteration,
                   steps, colors, buffer, worker, rng, slot, chunks, calls, sampleSum>>
    /\ UNCHANGED nonRenderVars

\* a row's closure starts on some pool thread: StdRng::from_entropy()
RowStart(y) ==
    /\ pc = "par"
    /\ worker[y] = "idle"
    /\ \E seed \in RngStates : rng' = [rng EXCEPT ![y] = seed]
    /\ worker' = [worker EXCEPT ![y] = "running"]
    /\ UNCHANGED <<num_samples, width, height, entry, callback_interval, pc, iteration,
                   steps, colors, buffer, slot, chunks, calls, sampleSum>>
    /\ UNCHANGED nonRenderVars

\* the row's closure returns its Vec of width colors
RowFinish(y) ==
    /\ pc = "par"
    /\ worker[y] = "running"
    /\ LET row == RowMap(y, 0, width, steps, rng[y])
       IN  /\ slot' = [slot EXCEPT ![y] = [x \in 1..Len(row) |-> row[x].color]]
           /\ sampleSum' = [i \in DOMAIN sampleSum |->
                              IF i > y * width /\ i <= (y + 1) * width
                              THEN CAdd(sampleSum[i], row[i - y * width].sum)
                              ELSE sampleSum[i]]
    /\ rng' = [rng EXCEPT ![y] = 0]
    /\ worker' = [worker EXCEPT ![y] = "done"]
    /\ UNCHANGED <<num_samples, width, height, entry, callback_interval, pc, iteration,
                   steps, colors, buffer, chunks, calls>>
    /\ UNCHANGED nonRenderVars

\* collect() joins the pass: the driving thread owns the whole batch
Collect ==
    /\ pc = "par"
    /\ AllRowsDone
    /\ colors' = Flatten(slot, 0)
    /\ pc' = "merge"
    /\ UNCHANGED <<num_samples, width, height, entry, callback_interval, iteration,
                   steps, buffer, worker, rng, slot, chunks, calls, sampleSum>>
    /\ UNCHANGED nonRenderVars

\* the merge without `iteration += steps`
AddSamplesNoAdvance ==
    /\ pc = "merge"
    /\ buffer' = add_samples(buffer, colors)
    /\ IF entry = "render"
       THEN pc' = "done" /\ iteration' = iteration
       ELSE pc' = "callback" /\ iteration' = iteration
    /\ UNCHANGED <<num_samples, width, height, entry, callback_interval, steps,
                   colors, worker, rng, slot, chunks, calls, sampleSum>>
    /\ UNCHANGED nonRenderVars

\* buffer.add_samples(&colors); then render returns (buffer.image()), and
\* iterative_render adds steps to iteration and calls the callback
AddSamples ==
    /\ pc = "merge"
    /\ buffer' = add_samples(buffer, colors)
    /\ IF entry = "render"
       THEN pc' = "done" /\ iteration' = iteration
       ELSE pc' = "callback" /\ iteration' = iteration + steps
    /\ UNCHANGED <<num_samples, width, height, entry, callback_interval, steps,
                   colors, worker, rng, slot, chunks, calls, sampleSum>>
    /\ UNCHANGED nonRenderVars

\* callback(iteration, &buffer) runs on the driving thread and returns
Callback ==
    /\ pc = "callback"
    /\ calls' = Append(calls, CallbackArg)
    /\ pc' = "while"
    /\ UNCHANGED <<num_samples, width, height, entry, callback_interval, iteration,
                   steps, colors, buffer, worker, rng, slot, chunks, sampleSum>>
    /\ UNCHANGED nonRenderVars

NextRender ==
    \/ RenderEnter
    \/ IterativeEnter
    \/ IterWhile
    \/ IterExit
    \/ \E y \in Rows : RowStart(y)
    \/ \E y \in Rows : RowFinish(y)
    \/ Collect
    \/ AddSamples
    \/ Callback

SpecRender == InitRender /\ [][NextRender]_vars

\* ------------------------------------------------ claims on the renderer
Iterative == entry = "iterative_render"

PrevCall(i) == IF i = 1 THEN 0 ELSE calls[i - 1]

\* C1: iterative_render(k, callback) with k >= 1 cuts the sample budget into
\* consecutive chunks of size min(remaining, k): every chunk holds between 1 and k
\* samples, and when the call returns the chunk sizes sum to num_samples and the
\* callback has been invoked ceil(num_samples / k) times (0 times for 0 samples).
C1_ChunksPartitionBudget ==
    (Iterative /\ callback_interval >= 1) =>
        /\ \A i \in 1..Len(chunks) :
              /\ chunks[i] >= 1 /\ chunks[i] <= callback_interval
              /\ chunks[i] = Min(num_samples - SumSeq(SubSeq(chunks, 1, i - 1)),
                                 callback_interval)
        /\ Len(calls) <= Len(chunks)
        /\ pc = "done" =>
              /\ SumSeq(chunks) = num_samples
              /\ Len(calls) = CeilDiv(num_samples, callback_interval)

C1_Witness ==
    /\ Iterative /\ pc = "done" /\ callback_interval >= 2
    /\ Len(chunks) >= 2
    /\ chunks[Len(chunks)] < callback_interval
    /\ Len(calls) = Len(chunks)

\* C2 as stated, for every callback interval: the callback's first arguments are
\* strictly increasing, each exceeds the previous one (0 before the first) by at
\* most k, and the last one is num_samples.
C2_Original ==
    Iterative =>
        /\ \A i \in 1..Len(calls) :
              /\ calls[i] > PrevCall(i)
              /\ calls[i] - PrevCall(i) <= callback_interval
        /\ (pc = "done" /\ Len(calls) > 0) => calls[Len(calls)] = num_samples

\* C2, amended: for a callback interval k >= 1 the callback's first arguments are
\* the cumulative sample counts: strictly increasing, each exceeding the previous
\* one (0 before the first) by at most k, and the last one exactly num_samples.
C2_CumulativeCounts ==
    (Iterative /\ callback_interval >= 1) =>
        /\ \A i \in 1..Len(calls) :
              /\ calls[i] > PrevCall(i)
              /\ calls[i] - PrevCall(i) <= callback_interval
              /\ calls[i] = SumSeq(SubSeq(chunks, 1, i))
        /\ (pc = "done" /\ num_samples > 0) =>
              /\ Len(calls) > 0
              /\ calls[Len(calls)] = num_samples

C2_Witness ==
    /\ Iterative /\ pc = "done" /\ callback_interval >= 2
    /\ Len(calls) >= 2
    /\ calls[Len(calls)] - calls[Len(calls) - 1] < callback_interval

\* C3: the callback runs only between parallel batches.  While it executes no row
\* worker is running, the merge of its own chunk is done and no later chunk has
\* started; the Buffer is not written during it; and a row worker starts only
\* when every earlier chunk's callback has returned.
C3_CallbackBetweenBatches ==
    /\ [](pc = "callback" =>
            /\ \A y \in Rows : worker[y] = "done"
            /\ buffer.n = Len(chunks)
            /\ Len(calls) = Len(chunks) - 1)
    /\ [][/\ (pc = "callback" => buffer' = buffer /\ worker' = worker /\ slot' = slot)
          /\ \A y \in Rows :
                (worker[y] # "running" /\ worker'[y] = "running") =>
                    /\ Len(calls) = Len(chunks) - 1
                    /\ buffer.n = Len(calls)]_vars

C3_Witness ==
    /\ Iterative /\ pc = "callback" /\ Len(calls) >= 1 /\ height >= 2

\* C4: during a pass a row worker writes its own row's output and nothing else;
\* the Buffer changes only by one add_samples per pass, after every row worker of
\* the pass has finished, with a batch that holds every pixel.
C4_MergeAfterParallelPhase ==
    /\ [](buffer.n = Len(chunks) - (IF pc \in {"par", "merge"} THEN 1 ELSE 0))
    /\ [][/\ buffer' # buffer =>
                /\ pc = "merge"
                /\ \A y \in Rows : worker[y] = "done"
                /\ Len(colors) = width * height
                /\ DOMAIN buffer.mean = 1..(width * height)
                /\ buffer'.n = buffer.n + 1
          /\ \A y \in Rows :
                (pc = "par" /\ slot'[y] # slot[y]) =>
                    /\ worker[y] = "running" /\ worker'[y] = "done"
                    /\ Len(slot'[y]) = width
                    /\ \A z \in Rows \ {y} : slot'[z] = slot[z] /\ worker'[z] = worker[z]
                    /\ buffer' = buffer /\ colors' = colors]_vars

C4_Witness ==
    /\ pc = "callback" /\ buffer.n >= 2 /\ height >= 2 /\ width >= 2

\* C5: when iterative_render returns, every pixel's accumulated mean is the mean
\* of all num_samples samples taken for it (scaled by the exposure), as one pass
\* over all the samples would give.
C5_MeanOverAllSamples ==
    (Iterative /\ pc = "done" /\ num_samples >= 1) =>
        \A i \in DOMAIN buffer.mean :
            buffer.mean[i] =
                CScale(CDiv(sampleSum[i], RInt(num_samples)), RInt(Pow2(ExposureValue)))

\* ------------------------------------------------------ get_closest_hit
\* const EPSILON: f64 = 1e-12, the unit in which hit times are counted here
EPSILON == 1

MaxObjects == 3
MaxTime == 2

\* Option::None for an object, and for a ray that misses an object
NoObject == 0

NoHit == -1

\* HitRecord::new(): time = f64::INFINITY
Infinity == MaxTime + 1

\* the hit time of one ray on one object: none, below t_min, or a valid time
TimeVals == {NoHit} \cup (0..MaxTime)

\* Shape::intersect(ray, t_min, &mut record): tightens the record only on a valid
\* hit strictly closer than the one it holds, and returns whether it did
intersect(t, t_min, rec) ==
    IF t # NoHit /\ t >= t_min /\ t < rec
    THEN [hit |-> TRUE, time |-> t]
    ELSE [hit |-> FALSE, time |-> rec]

\* one round of the loop: if object.shape.intersect(..) { hit = Some(object) }
ScanStepKeepFirst(acc, object, t) ==
    LET r == intersect(t, EPSILON, acc.time)
    IN  [time |-> r.time,
         hit |-> IF r.hit /\ acc.hit = NoObject THEN object ELSE acc.hit,
         any |-> acc.any \/ r.hit]

ScanStep(acc, object, t) ==
    LET r == intersect(t, EPSILON, acc.time)
    IN  [time |-> r.time,
         hit |-> IF r.hit THEN object ELSE acc.hit,
         any |-> acc.any \/ r.hit]

\* let mut h = HitRecord::new(); let mut hit = None;
ScanStart == [time |-> Infinity, hit |-> NoObject, any |-> FALSE]

\* the loop over the objects, in the order ord, from position i on
RECURSIVE ScanFrom(_, _, _, _)
ScanFrom(acc, ord, tm, i) ==
    IF i > Len(ord) THEN acc
    ELSE ScanFrom(ScanStep(acc, ord[i], tm[ord[i]]), ord, tm, i + 1)

\* Some((h, hit?)): the record's time and the object, or None (NoObject)
get_closest_hit(ord, tm) == ScanFrom(ScanStart, ord, tm, 1)

\* the orders in which n objects can stand in scene.objects
Perms(n) == {p \in [1..n -> 1..n] : \A i, j \in 1..n : i # j => p[i] # p[j]}

InitHit ==
    /\ \E n \in 1..MaxObjects :
          /\ times \in [1..n -> TimeVals]
          /\ order \in Perms(n)
    /\ hidx = 1
    /\ hrec = ScanStart.time
    /\ hit = ScanStart.hit
    /\ anyTrue = FALSE
    /\ IdleRender /\ IdleTrace /\ IdleCam /\ IdlePoly /\ IdleLens /\ IdlePhys /\ IdleMono /\ IdleCp /\ IdlePx

\* one iteration of `for object in &self.scene.objects`
HitScan ==
    /\ hidx <= Len(order)
    /\ LET acc == ScanStep([time |-> hrec, hit |-> hit, any |-> anyTrue],
                           order[hidx], times[order[hidx]])
       IN  /\ hrec' = acc.time
           /\ hit' = acc.hit
           /\ anyTrue' = acc.any
    /\ hidx' = hidx + 1
    /\ UNCHANGED <<times, order>>
    /\ UNCHANGED nonHitVars

NextHit == HitScan

SpecHit == InitHit /\ [][NextHit]_vars

\* the valid hit times of the ray: at or beyond t_min
ValidTimes == {times[o] : o \in {q \in DOMAIN times : times[q] # NoHit /\ times[q] >= EPSILON}}

ScanDone == hidx > Len(order) /\ Len(order) >= 1

\* C6: when the scan is done, get_closest_hit returns None exactly when no
\* intersect call returned true (no object has a valid hit); otherwise it returns
\* the smallest hit time together with an object that has that hit time, and a
\* scan of the same objects in any other order returns the same time and, when
\* one object alone is closest, the same object.
C6_ClosestHit ==
    ScanDone =>
        /\ (hit = NoObject) <=> ~anyTrue
        /\ (hit = NoObject) <=> (ValidTimes = {})
        /\ hit # NoObject =>
              /\ hrec \in ValidTimes
              /\ \A t \in ValidTimes : hrec <= t
              /\ times[hit] = hrec
        /\ \A p \in Perms(Len(order)) :
              LET other == get_closest_hit(p, times)
              IN  /\ (other.hit = NoObject) <=> (hit = NoObject)
                  /\ hit # NoObject =>
                        /\ other.time = hrec
                        /\ (Cardinality({o \in DOMAIN times : times[o] = hrec}) = 1
                               => other.hit = hit)

\* a later-scanned object is strictly closer than an earlier one that also hit
C6_Witness ==
    /\ ScanDone /\ Len(order) >= 2 /\ hit # NoObject
    /\ hit = order[Len(order)]
    /\ \E o \in DOMAIN times : o # hit /\ times[o] # NoHit /\ times[o] > hrec
    /\ \E o \in DOMAIN times : times[o] = 0

\* ------------------------------------------------------------ trace_ray
\* const FIREFLY_CLAMP: f64 = 100.0
FIREFLY_CLAMP == 100

MaxBounces == 2

\* The scene's materials: 1 an emitter, 2 a coloured non-emitter.
Material(m) ==
    IF m = 1 THEN [emittance |-> RInt(2), color |-> CInt(1, 1, 1)]
    ELSE [emittance |-> RInt(0), color |-> <<Rat(1, 1), Rat(1, 2), Rat(0, 1)>>]

\* Material::bsdf(n, wo, wi): a non-negative Color that depends on the directions
BsdfVals(m) == {Black, Material(m).color}

\* Material::sample_f(n, wo, rng): None, or Some((wi, pdf)); wi enters by wi . n
NoSample == <<>>

SampleVals == {NoSample} \cup [cosn : {RInt(-1)}, pdf : {RInt(0), Rat(1, 200)}]

\* the value of bsdf at a direction sample_f returned
SampledBsdf(m) == Material(m).color

\* Light::illuminate(pos, rng): the distance to the light
DistVals == {EPSILON, MaxTime}

\* Light::illuminate(pos, rng): the direction enters by wi . n
CosVals == {RInt(-1), RInt(1)}

Intensity == CInt(1, 1, 1)

AmbientColor == <<Rat(1, 2), Rat(1, 2), Rat(1, 2)>>

LightKinds == {"ambient", "point"}

\* scene.environment.get_color(&ray.dir)
Environment == CInt(1, 1, 1)

\* the scene traced: an object of each material, and one of four light lists
Scenes == {<<1, 2>>}

\* the hit times of one traced ray on the scene's objects
RayTimes == [1..Len(objects) -> {NoHit, EPSILON, MaxTime}]

LightLists == {<<>>, <<"ambient">>, <<"point">>, <<"ambient", "point">>}

\* scene.objects in the order of the Vec
SceneOrder == [i \in 1..Len(objects) |-> i]

\* let mut color = material.emittance * material.color
Emitted(m) == CScale(Material(m).color, Material(m).emittance)

\* with an occluder exactly at the light's distance let through
UnoccludedGeq(closest, dist) == closest.hit = NoObject \/ closest.time >= dist

\* closest_hit.is_none() || closest_hit.unwrap() > dist_to_light
Unoccluded(closest, dist) == closest.hit = NoObject \/ closest.time > dist

\* f.component_mul(&intensity) * wi.dot(n)
DirectTerm(f, intensity, cosn) == CScale(CMul(f, intensity), cosn)

\* if num_bounces < self.max_bounces
MayBounceLeq(nb, mb) == nb <= mb

MayBounce(nb, mb) == nb < mb

\* self.trace_ray(ray, num_bounces + 1, rng)
NextDepthSame(nb) == nb

NextDepth(nb) == nb + 1

\* 1.0 / pdf * f.component_mul(&radiance) * wi.dot(&h.normal).abs()
Indirect(f, pdf, cosn, radiance) ==
    CScale(CScale(CMul(f, radiance), RDiv(RInt(1), pdf)),
           IF RLess(cosn, RInt(0)) THEN RNeg(cosn) ELSE cosn)

\* with the indirect term added as it is
AddUnclamped(color, indirect) == CAdd(color, indirect)

\* color.x += indirect.x.min(FIREFLY_CLAMP), and so for y and z
AddClamped(color, indirect) ==
    <<RAdd(color[1], RMin(indirect[1], RInt(FIREFLY_CLAMP))),
      RAdd(color[2], RMin(indirect[2], RInt(FIREFLY_CLAMP))),
      RAdd(color[3], RMin(indirect[3], RInt(FIREFLY_CLAMP)))>>

NoCur == <<>>

NoLast == [hit |-> FALSE, depth |-> 0, emitted |-> Black, direct |-> Black,
           sampled |-> FALSE, added |-> FALSE, indirect |-> Black]

NoContrib == [kind |-> "none", unoccluded |-> FALSE, f |-> Black, cosn |-> RInt(0),
              added |-> Black, shadow |-> 0, occluder |-> NoObject, time |-> Infinity,
              dist |-> 0]

InitTrace ==
    /\ max_bounces \in 0..MaxBounces
    /\ objects \in Scenes
    /\ lights \in LightLists
    /\ tpc = "call"
    /\ num_bounces = 0
    /\ frames = <<>>
    /\ cur = NoCur
    /\ li = 0
    /\ ret = Black
    /\ invocations = 0
    /\ last = NoLast
    /\ contrib = NoContrib
    /\ IdleRender /\ IdleHit /\ IdleCam /\ IdlePoly /\ IdleLens /\ IdlePhys /\ IdleMono /\ IdleCp /\ IdlePx

\* trace_ray is entered: match self.get_closest_hit(ray)
TraceCall ==
    /\ tpc = "call"
    /\ invocations' = invocations + 1
    /\ \E tm \in RayTimes :
          LET c == get_closest_hit(SceneOrder, tm)
          IN  IF c.hit = NoObject
              THEN /\ ret' = Environment
                   /\ tpc' = "ret"
                   /\ last' = [NoLast EXCEPT !.depth = num_bounces]
                   /\ UNCHANGED <<cur, li>>
              ELSE /\ cur' = [material |-> objects[c.hit],
                              emitted |-> Emitted(objects[c.hit]),
                              direct |-> Black]
                   /\ li' = 1
                   /\ tpc' = "lights"
                   /\ UNCHANGED <<ret, last>>
    /\ contrib' = NoContrib
    /\ UNCHANGED <<max_bounces, objects, lights, num_bounces, frames>>
    /\ UNCHANGED nonTraceVars

\* sample_lights: one round of `for light in &self.scene.lights`
SampleLight ==
    /\ tpc = "lights"
    /\ li <= Len(lights)
    /\ IF lights[li] = "ambient"
       THEN LET a == CMul(AmbientColor, Material(cur.material).color)
            IN  /\ cur' = [cur EXCEPT !.direct = CAdd(@, a)]
                /\ contrib' = [NoContrib EXCEPT !.kind = "ambient", !.added = a]
       ELSE \E cosn \in CosVals, dist \in DistVals, f \in BsdfVals(cur.material),
               tm \in RayTimes :
               LET closest == get_closest_hit(SceneOrder, tm)
                   open == Unoccluded(closest, dist)
                   a == IF open THEN DirectTerm(f, Intensity, cosn) ELSE Black
               IN  /\ cur' = [cur EXCEPT !.direct = CAdd(@, a)]
                   /\ contrib' = [kind |-> "point", unoccluded |-> open,
                                  f |-> IF open THEN f ELSE Black,
                                  cosn |-> IF open THEN cosn ELSE RInt(0),
                                  added |-> a, shadow |-> 1,
                                  occluder |-> closest.hit, time |-> closest.time,
                                  dist |-> dist]
    /\ li' = li + 1
    /\ UNCHANGED <<max_bounces, objects, lights, tpc, num_bounces, frames, ret,
                   invocations, last>>
    /\ UNCHANGED nonTraceVars

\* after sample_lights: the bounce test and material.sample_f; either the
\* invocation returns its color or it calls trace_ray one bounce deeper
Scatter ==
    /\ tpc = "lights"
    /\ li > Len(lights)
    /\ \E s \in IF MayBounce(num_bounces, max_bounces) THEN SampleVals ELSE {NoSample} :
          IF s = NoSample
          THEN /\ ret' = CAdd(cur.emitted, cur.direct)
               /\ tpc' = "ret"
               /\ last' = [NoLast EXCEPT !.hit = TRUE, !.depth = num_bounces,
                                         !.emitted = cur.emitted, !.direct = cur.direct]
               /\ UNCHANGED <<frames, num_bounces>>
          ELSE    /\ frames' = Append(frames, [emitted |-> cur.emitted,
                                               direct |-> cur.direct,
                                               f |-> SampledBsdf(cur.material),
                                               pdf |-> s.pdf, cosn |-> s.cosn,
                                               depth |-> num_bounces])
                  /\ num_bounces' = NextDepth(num_bounces)
                  /\ tpc' = "call"
                  /\ UNCHANGED <<ret, last>>
    /\ cur' = NoCur
    /\ li' = 0
    /\ contrib' = NoContrib
    /\ UNCHANGED <<max_bounces, objects, lights, invocations>>
    /\ UNCHANGED nonTraceVars

\* an invocation returns: to the caller suspended at the recursive call, which
\* adds the clamped indirect term and returns in turn, or to get_color
Return ==
    /\ tpc = "ret"
    /\ IF frames = <<>>
       THEN tpc' = "done" /\ UNCHANGED <<frames, num_bounces, ret, last>>
       ELSE LET fr == frames[Len(frames)]
                indirect == Indirect(fr.f, fr.pdf, fr.cosn, ret)
            IN  /\ ret' = AddClamped(CAdd(fr.emitted, fr.direct), indirect)
                /\ frames' = SubSeq(frames, 1, Len(frames) - 1)
                /\ num_bounces' = fr.depth
                /\ last' = [hit |-> TRUE, depth |-> fr.depth, emitted |-> fr.emitted,
                            direct |-> fr.direct, sampled |-> TRUE, added |-> TRUE,
                            indirect |-> indirect]
                /\ tpc' = "ret"
    /\ UNCHANGED <<max_bounces, objects, lights, cur, li, invocations, contrib>>
    /\ UNCHANGED nonTraceVars

NextTrace ==
    \/ TraceCall
    \/ SampleLight
    \/ Scatter
    \/ Return

SpecTrace == InitTrace /\ [][NextTrace]_vars

\* --------------------------------------------------- claims on trace_ray
NonNegative(c) == \A i \in 1..3 : RLeq(RInt(0), c[i])

RMax(p, q) == IF RLess(p, q) THEN q ELSE p

\* an upper bound on the steps one primary ray's estimation still takes: the
\* rounds left in this invocation and in the deeper ones, and the returns
StepsLeft ==
    CASE tpc = "call" ->
            (max_bounces - num_bounces + 1) * (Len(lights) + 2) + max_bounces + 2
      [] tpc = "lights" ->
            (max_bounces - num_bounces) * (Len(lights) + 2)
                + (Len(lights) - li + 1) + 1 + max_bounces + 2
      [] tpc = "ret" -> Len(frames) + 1
      [] OTHER -> 0

\* C7: trace_ray is only invoked with depth <= max_bounces; an invocation makes
\* at most one recursive call, one bounce deeper, and after that call returns it
\* only returns; one primary ray causes at most max_bounces + 1 invocations, and
\* its estimation terminates: every step lowers a non-negative bound on the
\* steps left, and only the finished estimation has no step to take.
C7_BoundedRecursion ==
    /\ [](/\ num_bounces <= max_bounces
          /\ invocations <= max_bounces + 1
          /\ Len(frames) = num_bounces
          /\ \A i \in 1..Len(frames) : frames[i].depth = i - 1
          /\ StepsLeft >= 0
          /\ tpc \in {"call", "lights", "ret", "done"}
          /\ StepsLeft = 0 <=> tpc = "done")
    /\ [][/\ invocations' \in {invocations, invocations + 1}
          /\ invocations' = invocations + 1 <=> tpc = "call"
          /\ (tpc # "call" /\ tpc' = "call") =>
                /\ tpc = "lights"
                /\ num_bounces' = num_bounces + 1
                /\ Len(frames') = Len(frames) + 1
          /\ tpc = "ret" => tpc' \in {"ret", "done"}
          /\ StepsLeft' < StepsLeft]_vars

C7_Witness ==
    /\ tpc = "done" /\ max_bounces >= 2 /\ invocations = max_bounces + 1

\* C8: the invocation that returned last, if it hit an object, added an indirect
\* term exactly when its depth was below max_bounces and sample_f returned a
\* direction, and returned emitted + direct (+ the clamped indirect term when
\* added); with max_bounces = 0 there is one invocation and a hit returns
\* emittance x color + direct lighting.
C8_IndirectOnlyBelowLimit ==
    (tpc \in {"ret", "done"} /\ last.hit) =>
        /\ last.added <=> (last.depth < max_bounces /\ last.sampled)
        /\ last.added => Len(frames) = last.depth /\ invocations >= last.depth + 2
        /\ ret = IF last.added
                 THEN AddClamped(CAdd(last.emitted, last.direct), last.indirect)
                 ELSE CAdd(last.emitted, last.direct)
        /\ max_bounces = 0 =>
              /\ invocations = 1
              /\ frames = <<>>
              /\ ret = CAdd(last.emitted, last.direct)

C8_Witness ==
    /\ tpc = "ret" /\ last.hit /\ last.added /\ last.depth = 0 /\ max_bounces >= 2
    /\ last.indirect # Black

\* a hit at max_bounces = 0 that found direct light
C8_WitnessNoBounce ==
    /\ tpc = "done" /\ max_bounces = 0 /\ last.hit /\ last.direct # Black

\* C9: an unoccluded non-ambient light adds bsdf * intensity * max(0, wi.n) per
\* channel, nothing when wi.n < 0, and the direct-lighting color is never negative
\* in any channel.
C9_DirectNonNegative ==
    /\ (contrib.kind = "point" /\ contrib.unoccluded) =>
          contrib.added = CScale(CMul(contrib.f, Intensity), RMax(RInt(0), contrib.cosn))
    /\ tpc = "lights" => NonNegative(cur.direct)

\* ------------------------------------------------------ thin-lens camera
\* self.aperture = None
NoAperture == [shape |-> "None", scale |-> RInt(0), focal_distance |-> RInt(0)]

\* (self.fov / 2.0).tan().recip() is kept in place of fov; for fov = FRAC_PI_6 it
\* is 2 + sqrt(3), which stands here as 15/4
DefaultFovCot == Rat(15, 4)

FovCots == {RInt(1), RInt(2), DefaultFovCot}

\* ThinLensCamera::default()
ThinLensDefault ==
    [eye |-> V3(0, 0, 10), direction |-> V3(0, 0, -1), up |-> V3(0, 1, 0),
     fovCot |-> DefaultFovCot, aperture |-> NoAperture]

\* ThinLensCamera::look_at(eye, center, up, fov)
look_at(eye, center, up, fovCot) ==
    LET direction == VNormalize(VSub(center, eye))
    IN  [eye |-> eye, direction |-> direction,
         up |-> VNormalize(VSub(up, VScale(direction, VDot(up, direction)))),
         fovCot |-> fovCot, aperture |-> NoAperture]

\* ThinLensCamera::focus(focal_point, aperture)
focus(cam, focal_point, aperture) ==
    [cam EXCEPT !.aperture =
        IF aperture = NoAperture THEN NoAperture
        ELSE [aperture EXCEPT !.focal_distance =
                 VDot(VSub(focal_point, cam.eye), cam.direction)]]

\* rng.sample(Uniform::new_inclusive(-1.0, 1.0)): a value in [-1, 1] fixed by the
\* generator's state
UniformDraw(r) == RInt((r % 3) - 1)

\* the generator after one draw: one place further in its stream, so that within
\* one call no state comes back
RngAdvance(r) == r + 1

\* ApertureShape::Square.sample(rng): x, then y
SampleSquare(r) ==
    [x |-> UniformDraw(r), y |-> UniformDraw(RngAdvance(r)), rng |-> RngAdvance(RngAdvance(r))]

\* the body of `if let Some(ref aperture) = self.aperture`: depth of field
DepthOfField(cam, aperture, right, new_dir, r) ==
    LET focal_point == VAdd(cam.eye, VScale(VNormalize(new_dir), aperture.focal_distance))
        p == SampleSquare(r)
        origin == VAdd(cam.eye,
                       VScale(VAdd(VScale(right, p.x), VScale(cam.up, p.y)), aperture.scale))
    IN  [origin |-> origin, new_dir |-> VSub(focal_point, origin), rng |-> p.rng]

\* the pinhole direction d * direction + x * right + y * up
PinholeDir(cam, right, x, y) ==
    VAdd(VAdd(VScale(cam.direction, cam.fovCot), VScale(right, x)), VScale(cam.up, y))

UnitSquareAperture == [shape |-> "Square", scale |-> RInt(1), focal_distance |-> RInt(1)]

\* <ThinLensCamera as Camera>::cast_ray(x, y, rng) -> (Ray, Color, f64)
cast_ray_always(cam, x, y, r) ==
    LET right == VNormalize(VCross(cam.direction, cam.up))
        new_dir == PinholeDir(cam, right, x, y)
        l == DepthOfField(cam, IF cam.aperture = NoAperture THEN UnitSquareAperture
                               ELSE cam.aperture, right, new_dir, r)
    IN  [ray |-> [origin |-> l.origin, dir |-> UnitDirection(l.new_dir)],
         color |-> CInt(1, 1, 1), weight |-> RInt(1), rng |-> l.rng]

cast_ray(cam, x, y, r) ==
    LET right == VNormalize(VCross(cam.direction, cam.up))
        new_dir == PinholeDir(cam, right, x, y)
        l == IF cam.aperture # NoAperture
             THEN DepthOfField(cam, cam.aperture, right, new_dir, r)
             ELSE [origin |-> cam.eye, new_dir |-> new_dir, rng |-> r]
    IN  [ray |-> [origin |-> l.origin, dir |-> UnitDirection(l.new_dir)],
         color |-> CInt(1, 1, 1), weight |-> RInt(1), rng |-> l.rng]

\* normalized screen coordinates
Grid == {RInt(-1), Rat(-1, 2), RInt(0), Rat(1, 2), RInt(1)}

\* the screen points cast_ray is called at: with an aperture, those whose pinhole
\* direction has rational length, so that its normalize() is exact
ScreenPoints(cam) ==
    {pt \in Grid \X Grid :
        cam.aperture # NoAperture =>
            HasSqrt(RAdd(RAdd(RMul(pt[1], pt[1]), RMul(pt[2], pt[2])),
                         RMul(cam.fovCot, cam.fovCot)))}

\* the cameras built: the default one, and look_at from two eyes
Cameras ==
    {ThinLensDefault}
        \cup {look_at(V3(0, 0, 10), V3(0, 0, 0), V3(0, 1, 1), c) : c \in FovCots}
        \cup {look_at(V3(4, 0, 0), V3(0, 0, 0), V3(0, 0, 1), c) : c \in FovCots}

\* the apertures and focal points handed to focus
Apertures ==
    {NoAperture}
        \cup [shape : {"Square"}, scale : {RInt(1), Rat(1, 2)}, focal_distance : {RInt(0)}]

FocalPoints == {V3(0, 0, 0), V3(1, 0, 2)}

InitCam ==
    /\ camera \in Cameras
    /\ cpc = "ready"
    /\ screen = <<RInt(0), RInt(0)>>
    /\ rngA = 0 /\ rngB = 0
    /\ castA = <<>> /\ castB = <<>>
    /\ IdleRender /\ IdleHit /\ IdleTrace /\ IdlePoly /\ IdleLens /\ IdlePhys /\ IdleMono /\ IdleCp /\ IdlePx

\* camera = camera.focus(focal_point, aperture)
Focus ==
    /\ \E fp \in FocalPoints, ap \in Apertures : camera' = focus(camera, fp, ap)
    /\ cpc' = "ready"
    /\ UNCHANGED <<screen, rngA, rngB, castA, castB>>
    /\ UNCHANGED nonCamVars

\* cast_ray(x, y, rng) at one screen point, once with each of two generators
CastRay ==
    /\ \E pt \in ScreenPoints(camera), r1 \in RngStates, r2 \in RngStates :
          /\ screen' = pt
          /\ rngA' = r1
          /\ rngB' = r2
          /\ castA' = cast_ray(camera, pt[1], pt[2], r1)
          /\ castB' = cast_ray(camera, pt[1], pt[2], r2)
    /\ cpc' = "cast"
    /\ UNCHANGED camera
    /\ UNCHANGED nonCamVars

NextCam ==
    \/ Focus
    \/ CastRay

SpecCam == InitCam /\ [][NextCam]_vars

\* C10: with no aperture cast_ray draws nothing from the generator, two calls at
\* the same (x, y) with different generator states return the same ray, its
\* origin is the eye, and the default camera's ray at (0, 0) has direction
\* exactly (0, 0, -1).
C10_NoApertureDeterministic ==
    (cpc = "cast" /\ camera.aperture = NoAperture) =>
        /\ castA.rng = rngA /\ castB.rng = rngB
        /\ castA.ray = castB.ray
        /\ castA.ray.origin = camera.eye
        /\ castA.color = CInt(1, 1, 1) /\ castA.weight = RInt(1)
        /\ (camera = ThinLensDefault /\ screen = <<RInt(0), RInt(0)>>) =>
              castA.ray.dir = <<0, 0, -1>>

C10_Witness ==
    /\ cpc = "cast" /\ camera = ThinLensDefault /\ screen = <<RInt(0), RInt(0)>>
    /\ rngA # rngB
    /\ castA.ray = [origin |-> V3(0, 0, 10), dir |-> <<0, 0, -1>>]

\* with an aperture the generator decides the ray
C10_ApertureDepends ==
    /\ cpc = "cast" /\ camera.aperture # NoAperture /\ castA.ray # castB.ray
    /\ castA.rng # rngA

\* ------------------------------------------------------ Polygon::contains
P2(a, b) == <<a, b>>

\* the state before the first round of the loop of contains, without the edge
\* from the last vertex to the first
ContainsStartNoWrap(poly) == [i |-> 1, j |-> 1, c |-> FALSE]

\* i = 0, j = num_points - 1, c = false (vertices are numbered from 1 here)
ContainsStart(poly) == [i |-> 1, j |-> Len(poly), c |-> FALSE]

\* the condition of the `if` in the loop of contains
EdgeFlips(prev_point, curr_point, x, y) ==
    /\ RLess(y, curr_point[2]) # RLess(y, prev_point[2])
    /\ RLess(x, RAdd(RDiv(RMul(RAdd(prev_point[1], RNeg(curr_point[1])),
                               RAdd(y, RNeg(curr_point[2]))),
                          RAdd(prev_point[2], RNeg(curr_point[2]))),
                     curr_point[1]))

\* the `while i < num_points` loop of contains
RECURSIVE ContainsLoop(_, _, _, _)
ContainsLoop(poly, x, y, st) ==
    IF st.i > Len(poly) THEN st.c
    ELSE ContainsLoop(poly, x, y,
            [i |-> st.i + 1, j |-> st.i,
             c |-> IF EdgeFlips(poly[st.j], poly[st.i], x, y) THEN ~st.c ELSE st.c])

\* Polygon::contains(x, y) on a polygon with at least one vertex
contains(poly, x, y) == ContainsLoop(poly, x, y, ContainsStart(poly))

\* What a call of contains gives: "true", "false" or a panic.  With no vertex
\* `num_points - 1` is 0 - 1 in usize: a build with overflow checks panics
\* there, one without them wraps, skips the loop and returns false.
ContainsOutcome(poly, x, y, checks) ==
    IF Len(poly) = 0 THEN (IF checks THEN "panic" ELSE "false")
    ELSE IF contains(poly, x, y) THEN "true" ELSE "false"

SquarePoly == <<P2(RInt(-1), RInt(-1)), P2(RInt(1), RInt(-1)), P2(RInt(1), RInt(1)), P2(RInt(-1), RInt(1))>>

TrianglePoly == <<P2(RInt(-1), RInt(-1)), P2(RInt(1), RInt(-1)), P2(RInt(0), RInt(1))>>

\* a concave polygon: the square with a notch cut in from the right
NotchPoly ==
    <<P2(RInt(-1), RInt(-1)), P2(RInt(1), RInt(-1)), P2(Rat(-1, 2), RInt(0)),
      P2(RInt(1), RInt(1)), P2(RInt(-1), RInt(1))>>

\* Polygon::get_heart(0., 0.): every vertex at the origin (three kept of the 36)
PointPoly == <<P2(RInt(0), RInt(0)), P2(RInt(0), RInt(0)), P2(RInt(0), RInt(0))>>

\* Polygon::get_star(0.): no vertex
EmptyPoly == <<>>

Polygons == {SquarePoly, TrianglePoly, NotchPoly, PointPoly, EmptyPoly}

QueryVals == {RInt(-1), Rat(-1, 2), RInt(0), Rat(1, 2), RInt(1), RInt(2)}

InitContains ==
    /\ pts \in Polygons
    /\ query \in QueryVals \X QueryVals
    /\ inside = "false"
    /\ ppc = "ready"
    /\ rejected = {} /\ rounds = 0 /\ sampled = <<>>
    /\ overflow_checks \in BOOLEAN
    /\ IdleRender /\ IdleHit /\ IdleTrace /\ IdleCam /\ IdleLens /\ IdlePhys /\ IdleMono /\ IdleCp /\ IdlePx

\* poly.contains(x, y)
ContainsCall ==
    /\ ppc = "ready"
    /\ inside' = ContainsOutcome(pts, query[1], query[2], overflow_checks)
    /\ ppc' = "done"
    /\ UNCHANGED <<pts, query, rejected, rounds, sampled, overflow_checks>>
    /\ UNCHANGED nonPolyVars

NextContains == ContainsCall

SpecContains == InitContains /\ [][NextContains]_vars

\* the edges of the polygon as pairs of consecutive vertices, the last one from
\* the last vertex back to the first
Edges(poly) == {k \in 1..Len(poly) : TRUE}

EdgeFrom(poly, k) == poly[k]

EdgeTo(poly, k) == poly[(k % Len(poly)) + 1]

\* where the line through a and b meets height y
CrossingX(a, b, y) ==
    RAdd(a[1], RDiv(RMul(RAdd(y, RNeg(a[2])), RAdd(b[1], RNeg(a[1]))), RAdd(b[2], RNeg(a[2]))))

\* the edges with exactly one endpoint above y that cross height y right of x
CrossingEdges(poly, x, y) ==
    {k \in Edges(poly) :
        LET a == EdgeFrom(poly, k)
            b == EdgeTo(poly, k)
        IN  /\ (RLess(y, a[2]) /\ ~RLess(y, b[2])) \/ (~RLess(y, a[2]) /\ RLess(y, b[2]))
            /\ RLess(x, CrossingX(a, b, y))}

\* C11: contains is the even-odd crossing test over all edges, the wraparound
\* edge included; the square (+-1, +-1) contains (0, 0) and not (2, 2).
C11_EvenOddCrossing ==
    ppc = "done" =>
        /\ (inside = "true") <=> (Cardinality(CrossingEdges(pts, query[1], query[2])) % 2 = 1)
        /\ (pts = SquarePoly /\ query = P2(RInt(0), RInt(0))) => inside = "true"
        /\ (pts = SquarePoly /\ query = P2(RInt(2), RInt(2))) => inside = "false"

C11_Witness ==
    /\ ppc = "done" /\ pts = NotchPoly /\ query = P2(Rat(1, 2), RInt(0)) /\ inside = "false"
    /\ Cardinality(CrossingEdges(pts, query[1], query[2])) = 0

C11_WitnessSquare ==
    /\ ppc = "done" /\ pts = SquarePoly /\ query = P2(RInt(0), RInt(0)) /\ inside = "true"

\* ------------------------------------- ApertureShape::sample, the Poly arm
MaxRounds == 3

\* the values rng.sample(Uniform::new_inclusive(-1.0, 1.0)) gives
DrawVals == {UniformDraw(r) : r \in 0..2}

\* `if poly.contains(x, y)` without the test: the first candidate is returned
PolyAcceptsAny(outcome) == outcome # "panic"

\* `if poly.contains(x, y)`
PolyAccepts(outcome) == outcome = "true"

InitSample ==
    /\ pts \in Polygons
    /\ overflow_checks \in BOOLEAN
    /\ ppc = "loop"
    /\ query = <<>> /\ inside = "false"
    /\ rejected = {} /\ rounds = 0 /\ sampled = <<>>
    /\ IdleRender /\ IdleHit /\ IdleTrace /\ IdleCam /\ IdleLens /\ IdlePhys /\ IdleMono /\ IdleCp /\ IdlePx

\* one round of the loop: x and y are drawn, `break [x, y]` if contains holds
PolyRound(x, y) ==
    /\ ppc = "loop"
    /\ query' = P2(x, y)
    /\ inside' = ContainsOutcome(pts, x, y, overflow_checks)
    /\ rounds' = Min(rounds + 1, MaxRounds)
    /\ IF inside' = "panic"
       THEN ppc' = "panic" /\ UNCHANGED <<rejected, sampled>>
       ELSE IF PolyAccepts(inside')
       THEN ppc' = "returned" /\ sampled' = P2(x, y) /\ UNCHANGED rejected
       ELSE ppc' = "loop" /\ rejected' = rejected \cup {P2(x, y)} /\ UNCHANGED sampled
    /\ UNCHANGED <<pts, overflow_checks>>
    /\ UNCHANGED nonPolyVars

SampleRound == \E x \in DrawVals, y \in DrawVals : PolyRound(x, y)

NextSample == SampleRound

SpecSample == InitSample /\ [][NextSample]_vars

InUnitSquare(pt) ==
    /\ RLeq(RInt(-1), pt[1]) /\ RLeq(pt[1], RInt(1))
    /\ RLeq(RInt(-1), pt[2]) /\ RLeq(pt[2], RInt(1))

\* C12: the point returned for a Poly shape lies in [-1, 1] x [-1, 1] and
\* satisfies contains, and every candidate drawn before it failed contains.
C12_RejectionSampling ==
    /\ \A q \in rejected : Len(pts) > 0 => ~contains(pts, q[1], q[2])
    /\ ppc = "returned" =>
          /\ InUnitSquare(sampled)
          /\ Len(pts) > 0 /\ contains(pts, sampled[1], sampled[2])
          /\ sampled = query

C12_Witness ==
    /\ ppc = "returned" /\ pts = TrianglePoly /\ Cardinality(rejected) >= 2
    /\ rounds = MaxRounds

\* ------------------------------------------------------------------ lenses
\* Option<f64>
None == <<>>

Some(q) == <<q>>

\* lens.rs Aperture { scale, shape }; a Poly shape stands for TrianglePoly
LensAperture(scale, shape) == [scale |-> scale, shape |-> shape]

\* SingleLens::default()
SingleLensDefault ==
    [kind |-> "SingleLens", r1 |-> RInt(4), r2 |-> RInt(4),
     aperture |-> LensAperture(Rat(7, 200), "Circle"),
     thickness |-> Rat(1, 100), n_d |-> Rat(9, 5), v_no |-> RInt(1000)]

\* a thick strong lens (focal length 5/24) and a diverging one (focal length -1)
SingleLensThick ==
    [kind |-> "SingleLens", r1 |-> RInt(1), r2 |-> RInt(1),
     aperture |-> LensAperture(Rat(1, 2), "Square"),
     thickness |-> RInt(1), n_d |-> RInt(5), v_no |-> RInt(1000)]

SingleLensDiverging ==
    [kind |-> "SingleLens", r1 |-> RInt(-1), r2 |-> RInt(-1),
     aperture |-> LensAperture(RInt(1), "Poly"),
     thickness |-> RInt(0), n_d |-> Rat(3, 2), v_no |-> RInt(1000)]

\* a thin symmetric lens of focal length 1
SingleLensUnit ==
    [kind |-> "SingleLens", r1 |-> RInt(1), r2 |-> RInt(1),
     aperture |-> LensAperture(RInt(1), "Poly"),
     thickness |-> RInt(0), n_d |-> Rat(3, 2), v_no |-> RInt(1000)]

\* AchromaticDoublet::new(params); the three assert! are the panics
AchromaticDoubletNew(params) ==
    LET w1 == RDiv(RInt(1), params.v1)
        w2 == RDiv(RInt(1), params.v2)
        ptot == RDiv(RInt(1), params.feq)
        p1 == RDiv(ptot, RAdd(RInt(1), RNeg(RDiv(w1, w2))))
        p2 == RAdd(ptot, RNeg(p1))
        r2 == RDiv(RInt(1), RAdd(RDiv(p1, RAdd(params.n1, RInt(-1))),
                                 RNeg(RDiv(RInt(1), params.r1))))
        r3 == RDiv(RInt(-1), RAdd(RDiv(p2, RAdd(params.n2, RInt(-1))),
                                  RNeg(RDiv(RInt(1), r2))))
    IN  IF ~(RLess(RInt(0), params.r1) /\ RLess(RInt(0), r2) /\ RLess(RInt(0), r3))
        THEN "panic"
        ELSE [kind |-> "AchromaticDoublet", v1 |-> params.v1, v2 |-> params.v2,
              n1 |-> params.n1, n2 |-> params.n2, feq |-> params.feq,
              thickness |-> params.thickness, aperture |-> params.aperture,
              r1 |-> params.r1, r2 |-> r2, r3 |-> r3]

\* AchromaticDoublet::default()
AchromaticDoubletDefault ==
    AchromaticDoubletNew(
        [v1 |-> Rat(6417, 100), v2 |-> RInt(1), n1 |-> Rat(13, 10), n2 |-> Rat(9, 5),
         feq |-> Rat(5, 2), thickness |-> Rat(5, 1000),
         aperture |-> LensAperture(Rat(1, 10), "Circle"), r1 |-> RInt(4)])

\* a thick doublet of short focal length
AchromaticDoubletThick ==
    AchromaticDoubletNew(
        [v1 |-> Rat(6417, 100), v2 |-> RInt(1), n1 |-> Rat(13, 10), n2 |-> Rat(9, 5),
         feq |-> Rat(1, 4), thickness |-> RInt(1),
         aperture |-> LensAperture(Rat(1, 2), "Poly"), r1 |-> RInt(4)])

Lenses ==
    {SingleLensDefault, SingleLensThick, SingleLensDiverging, SingleLensUnit,
     AchromaticDoubletDefault, AchromaticDoubletThick}

\* SingleLens::focal_length, AchromaticDoublet::focal_length
focal_length(l) ==
    IF l.kind = "AchromaticDoublet" THEN l.feq
    ELSE LET nm1 == RAdd(l.n_d, RInt(-1))
         IN  RDiv(RInt(1),
                  RMul(nm1,
                       RAdd(RAdd(RDiv(RInt(1), l.r1), RDiv(RInt(1), l.r2)),
                            RNeg(RDiv(RMul(nm1, l.thickness),
                                      RMul(l.n_d, RMul(l.r1, l.r2)))))))

\* Lens::focus_max
focus_max(l) == None

\* Lens::focus_min
focus_min(l) ==
    IF l.kind = "AchromaticDoublet" THEN None
    ELSE Some(RMul(RInt(4), focal_length(l)))

\* the requested distance taken as it is
UnclampedDistance(l, object_distance) == object_distance

\* let object_distance = object_distance.max(4. * self.focal_length())
ClampedDistance(l, object_distance) == RMax(object_distance, RMul(RInt(4), focal_length(l)))

\* b * b - 4. * a * c with a = 1, b = -object_distance, c = focal_length * object_distance
Discriminant(l, od) ==
    RAdd(RMul(RNeg(od), RNeg(od)), RNeg(RMul(RInt(4), RMul(focal_length(l), od))))

\* let min_distance = ...
min_distance(l) ==
    IF l.kind = "AchromaticDoublet" THEN RAdd(l.thickness, Rat(1, 5))
    ELSE RAdd(RDiv(l.thickness, RInt(2)), Rat(1, 5))

\* the choice of image_distance with the two roots tried in the other order
ImageDistanceLargerFirst(b, discriminant, min_d) ==
    IF RLess(discriminant, RInt(0)) THEN min_d
    ELSE LET opt1 == RDiv(RAdd(RNeg(b), RNeg(RSqrt(discriminant))), RInt(2))
             opt2 == RDiv(RAdd(RNeg(b), RSqrt(discriminant)), RInt(2))
         IN  IF RLess(min_d, opt2) THEN opt2
             ELSE IF RLess(min_d, opt1) THEN opt1
             ELSE min_d

\* the choice of image_distance that takes the smaller root wherever it lies
ImageDistanceSmallerRoot(b, discriminant, min_d) ==
    IF RLess(discriminant, RInt(0)) THEN min_d
    ELSE RDiv(RAdd(RNeg(b), RNeg(RSqrt(discriminant))), RInt(2))

\* let image_distance = if discriminant < 0. { .. } else { .. }
ImageDistance(b, discriminant, min_d) ==
    IF RLess(discriminant, RInt(0)) THEN min_d
    ELSE LET opt1 == RDiv(RAdd(RNeg(b), RNeg(RSqrt(discriminant))), RInt(2))
             opt2 == RDiv(RAdd(RNeg(b), RSqrt(discriminant)), RInt(2))
         IN  IF RLess(min_d, opt1) THEN opt1
             ELSE IF RLess(min_d, opt2) THEN opt2
             ELSE min_d

LensSurface(radius, thickness, aperture, n_d, v_no) ==
    [radius |-> radius, thickness |-> thickness, aperture |-> aperture,
     n_d |-> n_d, v_no |-> v_no]

\* the surfaces built from the lens and the image distance
Surfaces(l, image_distance) ==
    IF l.kind = "AchromaticDoublet"
    THEN <<LensSurface(l.r1, l.thickness, l.aperture, Some(l.n1), l.v1),
           LensSurface(RNeg(l.r2), l.thickness, l.aperture, Some(l.n2), l.v2),
           LensSurface(RNeg(l.r3), RAdd(image_distance, RNeg(l.thickness)), l.aperture,
                       None, RInt(0))>>
    ELSE <<LensSurface(l.r1, l.thickness, l.aperture, Some(l.n_d), l.v_no),
           LensSurface(RNeg(l.r2), RAdd(image_distance, RNeg(RDiv(l.thickness, RInt(2)))),
                       l.aperture, None, RInt(0))>>

\* a lens_system whose first element's thickness follows the focus too
lens_system_shifting(l, object_distance) ==
    LET od == ClampedDistance(l, object_distance)
        s == Surfaces(l, ImageDistance(RNeg(od), Discriminant(l, od), min_distance(l)))
    IN  [s EXCEPT ![1].thickness = RAdd(s[1].thickness, s[Len(s)].thickness)]

\* Lens::lens_system(object_distance)
lens_system(l, object_distance) ==
    LET od == ClampedDistance(l, object_distance)
    IN  Surfaces(l, ImageDistance(RNeg(od), Discriminant(l, od), min_distance(l)))

\* the object distances asked for: those whose discriminant is negative or has
\* a rational root, so that sqrt() is exact
DistanceCandidates(l) ==
    LET f == focal_length(l)
    IN  {RInt(-1), RInt(0), Rat(1, 2), RInt(4), f, RMul(RInt(4), f),
         RMul(Rat(9, 2), f), RMul(Rat(25, 4), f)}

ObjectDistances(l) ==
    {d \in DistanceCandidates(l) :
        LET disc == Discriminant(l, ClampedDistance(l, d))
        IN  RLess(disc, RInt(0)) \/ HasSqrt(disc)}

NoCall == [d |-> RInt(0), sys |-> <<>>]

InitLens ==
    /\ lens \in Lenses
    /\ lens_d = RInt(0) /\ lens_sys = <<>> /\ lens_prev = NoCall
    /\ lpc = "ready"
    /\ IdleRender /\ IdleHit /\ IdleTrace /\ IdleCam /\ IdlePoly /\ IdlePhys /\ IdleMono /\ IdleCp /\ IdlePx

\* lens.lens_system(d)
LensSystemCall ==
    /\ \E d \in ObjectDistances(lens) :
          /\ lens_d' = d
          /\ lens_sys' = lens_system(lens, d)
    /\ lens_prev' = [d |-> lens_d, sys |-> lens_sys]
    /\ lpc' = "called"
    /\ UNCHANGED lens
    /\ UNCHANGED nonLensVars

NextLens == LensSystemCall

SpecLens == InitLens /\ [][NextLens]_vars

SurfaceCount(l) == IF l.kind = "AchromaticDoublet" THEN 3 ELSE 2

\* a surface without its thickness
Fixed(s) == [radius |-> s.radius, aperture |-> s.aperture, n_d |-> s.n_d, v_no |-> s.v_no]

\* C16: the stack has a fixed number of surfaces per lens type (2 and 3), every
\* surface carries the lens's aperture, radii, indices and V-numbers do not
\* depend on the distance, and only the last surface's thickness varies.
C16_StackShapeFixed ==
    lpc = "called" =>
        /\ Len(lens_sys) = SurfaceCount(lens)
        /\ \A i \in 1..Len(lens_sys) : lens_sys[i].aperture = lens.aperture
        /\ lens_prev.sys # <<>> =>
              /\ Len(lens_prev.sys) = Len(lens_sys)
              /\ \A i \in 1..Len(lens_sys) :
                    /\ Fixed(lens_sys[i]) = Fixed(lens_prev.sys[i])
                    /\ i < Len(lens_sys) => lens_sys[i].thickness = lens_prev.sys[i].thickness

C16_Witness ==
    /\ lpc = "called" /\ lens.kind = "AchromaticDoublet" /\ lens_prev.sys # <<>>
    /\ lens_sys[3].thickness # lens_prev.sys[3].thickness
    /\ lens_sys[1] = lens_prev.sys[1] /\ lens_sys[2] = lens_prev.sys[2]

\* the image distance a surface stack was built for: the last thickness plus
\* what lens_system took off it
ImageDistanceOf(l, sys) ==
    RAdd(sys[Len(sys)].thickness,
         IF l.kind = "AchromaticDoublet" THEN l.thickness ELSE RDiv(l.thickness, RInt(2)))

\* thickness/2 + 0.2 for SingleLens, thickness + 0.2 for AchromaticDoublet
Clearance(l) ==
    IF l.kind = "SingleLens" THEN RAdd(RMul(l.thickness, Rat(1, 2)), Rat(2, 10))
    ELSE RAdd(l.thickness, Rat(2, 10))

\* x solves the focusing quadratic x^2 - od x + f od = 0
IsRoot(l, od, x) ==
    RAdd(RAdd(RMul(x, x), RNeg(RMul(od, x))), RMul(focal_length(l), od)) = RInt(0)

SmallerRoot(l, od) == RDiv(RAdd(od, RNeg(RSqrt(Discriminant(l, od)))), RInt(2))

LargerRoot(l, od) == RDiv(RAdd(od, RSqrt(Discriminant(l, od))), RInt(2))

\* C17: the image distance is the minimum clearance when the quadratic has no
\* real root; else the smaller root if it exceeds the clearance, else the larger
\* root if it does, else the clearance; lens_system always returns a stack.
C17_FallbackPolicy ==
    lpc = "called" =>
        LET od == ClampedDistance(lens, lens_d)
            img == ImageDistanceOf(lens, lens_sys)
            lo == SmallerRoot(lens, od)
            hi == LargerRoot(lens, od)
        IN  /\ Len(lens_sys) > 0 /\ ~IsNaN(img)
            /\ IF RLess(Discriminant(lens, od), RInt(0)) THEN img = Clearance(lens)
               ELSE /\ IsRoot(lens, od, lo) /\ IsRoot(lens, od, hi) /\ RLeq(lo, hi)
                    /\ RLess(Clearance(lens), lo) => img = lo
                    /\ (RLeq(lo, Clearance(lens)) /\ RLess(Clearance(lens), hi)) => img = hi
                    /\ RLeq(hi, Clearance(lens)) => img = Clearance(lens)

\* the larger root is taken: the smaller one is within the clearance
C17_Witness ==
    /\ lpc = "called"
    /\ LET od == ClampedDistance(lens, lens_d)
       IN  /\ ~RLess(Discriminant(lens, od), RInt(0))
           /\ RLeq(SmallerRoot(lens, od), Clearance(lens))
           /\ RLess(Clearance(lens), LargerRoot(lens, od))
           /\ ImageDistanceOf(lens, lens_sys) = LargerRoot(lens, od)

C17_WitnessNoRoot ==
    /\ lpc = "called" /\ RLess(Discriminant(lens, ClampedDistance(lens, lens_d)), RInt(0))
    /\ ImageDistanceOf(lens, lens_sys) = Clearance(lens)

C17_WitnessSmaller ==
    /\ lpc = "called"
    /\ LET od == ClampedDistance(lens, lens_d)
       IN  /\ RLess(RInt(0), Discriminant(lens, od))
           /\ ImageDistanceOf(lens, lens_sys) = SmallerRoot(lens, od)

C17_WitnessBothBelow ==
    /\ lpc = "called"
    /\ LET od == ClampedDistance(lens, lens_d)
       IN  /\ RLess(RInt(0), Discriminant(lens, od))
           /\ RLeq(LargerRoot(lens, od), Clearance(lens))
           /\ ImageDistanceOf(lens, lens_sys) = Clearance(lens)

BelowRange(l, d) == focus_min(l) # None /\ RLess(d, focus_min(l)[1])

AboveRange(l, d) == focus_max(l) # None /\ RLess(focus_max(l)[1], d)

\* C18: a distance inside [focus_min, focus_max] (an absent bound being no
\* bound) is solved for unchanged, one outside is replaced by the nearest bound,
\* for SingleLens and for AchromaticDoublet.
C18_FocusRangeIsSolvedRange ==
    lpc = "called" =>
        LET solved == ClampedDistance(lens, lens_d)
        IN  /\ (~BelowRange(lens, lens_d) /\ ~AboveRange(lens, lens_d)) => solved = lens_d
            /\ BelowRange(lens, lens_d) =>
                  /\ solved = focus_min(lens)[1]
                  /\ lens_sys = lens_system(lens, focus_min(lens)[1])
            /\ AboveRange(lens, lens_d) => solved = focus_max(lens)[1]

\* the SingleLens half of the statement
C18_SingleLensRange ==
    (lpc = "called" /\ lens.kind = "SingleLens") => C18_FocusRangeIsSolvedRange

\* ---------------------------------------------------------- physical camera
RAbs(q) == IF RLess(q, RInt(0)) THEN RNeg(q) ELSE q

\* the distances whose lens_system is computed exactly
ExactDistance(l, d) ==
    LET disc == Discriminant(l, ClampedDistance(l, d))
    IN  RLess(disc, RInt(0)) \/ HasSqrt(disc)

\* PhysicalCamera::<L>::default() with L::default() = l
PhysicalCameraDefault(l) ==
    [eye |-> <<RInt(0), Rat(-1, 2), RInt(7)>>, direction |-> V3(0, 0, -1), up |-> V3(0, 1, 0),
     sensor_width |-> RInt(8), sensor_height |-> RInt(6),
     lens |-> l, lens_system |-> lens_system(l, RInt(4))]

\* look_at that also focuses on the centre
physical_look_at_refocus(cam, eye, center, up) ==
    LET direction == VNormalize(VSub(center, eye))
    IN  [cam EXCEPT !.eye = eye, !.direction = direction,
                    !.up = VNormalize(VSub(up, VScale(direction, VDot(up, direction)))),
                    !.lens_system = lens_system(cam.lens, RAbs(VDot(VSub(center, eye), direction)))]

\* PhysicalCamera::look_at(eye, center, up)
physical_look_at(cam, eye, center, up) ==
    LET direction == VNormalize(VSub(center, eye))
    IN  [cam EXCEPT !.eye = eye, !.direction = direction,
                    !.up = VNormalize(VSub(up, VScale(direction, VDot(up, direction))))]

\* (focal_point - self.eye).dot(&self.direction).abs()
FocusDistance(cam, focal_point) == RAbs(VDot(VSub(focal_point, cam.eye), cam.direction))

\* PhysicalCamera::focus(focal_point)
physical_focus(cam, focal_point) ==
    [cam EXCEPT !.lens_system = lens_system(cam.lens, FocusDistance(cam, focal_point))]

\* the lenses a camera is built with: lens_system(4.) is exact for them
CameraLenses == {l \in Lenses : ExactDistance(l, RInt(4))}

\* the arguments of look_at: eye, center, up
LookAts ==
    {<<V3(0, 0, 10), V3(0, 0, 0), V3(0, 1, 1)>>, <<V3(4, 0, 0), V3(0, 0, 0), V3(0, 0, 1)>>}

PhysFocalPoints ==
    {<<RInt(0), RInt(0), Rat(5, 2)>>, <<RInt(0), RInt(0), Rat(3, 4)>>,
     <<RInt(0), RInt(0), Rat(11, 2)>>, <<RInt(0), RInt(0), Rat(15, 4)>>,
     <<Rat(-1, 2), RInt(0), RInt(0)>>, V3(0, 0, 0)}

NoCast ==
    /\ phpc = "idle" /\ screenpt = <<>> /\ channel = 0 /\ optics = <<>> /\ rear = 0 /\ surf = 0
    /\ ray_p = <<>> /\ ray_dir = <<>> /\ axial_loc = RInt(0) /\ valid = TRUE /\ visited = <<>>
    /\ attempts = 0 /\ pray = <<>>

castVars ==
    <<phpc, screenpt, channel, optics, rear, surf, ray_p, ray_dir, axial_loc, valid, visited,
      attempts, pray>>

InitPhysCam ==
    /\ pcam \in {PhysicalCameraDefault(l) : l \in CameraLenses}
    /\ pop = "new"
    /\ lastFocus = None
    /\ NoCast
    /\ IdleRender /\ IdleHit /\ IdleTrace /\ IdleCam /\ IdlePoly /\ IdleLens /\ IdleMono /\ IdleCp /\ IdlePx

\* camera.look_at(eye, center, up)
PhysLookAt ==
    /\ \E a \in LookAts : pcam' = physical_look_at(pcam, a[1], a[2], a[3])
    /\ pop' = "look_at"
    /\ UNCHANGED <<lastFocus, castVars>>
    /\ UNCHANGED nonPhysVars

\* camera.focus(focal_point)
PhysFocus ==
    /\ \E fp \in PhysFocalPoints :
          /\ ExactDistance(pcam.lens, FocusDistance(pcam, fp))
          /\ pcam' = physical_focus(pcam, fp)
          /\ lastFocus' = Some([point |-> fp, distance |-> FocusDistance(pcam, fp)])
    /\ pop' = "focus"
    /\ UNCHANGED castVars
    /\ UNCHANGED nonPhysVars

\* camera.cast_ray(x, y, rng): through &self, the camera is only read
PhysCast ==
    /\ pop' = "cast_ray"
    /\ UNCHANGED <<pcam, lastFocus, castVars>>
    /\ UNCHANGED nonPhysVars

NextPhysCam ==
    \/ PhysLookAt
    \/ PhysFocus
    \/ PhysCast

SpecPhysCam == InitPhysCam /\ [][NextPhysCam]_vars

\* the camera without its lens system, and without its placement
Placement(cam) == <<cam.eye, cam.direction, cam.up>>

Body(cam) == <<cam.sensor_width, cam.sensor_height, cam.lens>>

\* C20: focus changes only the lens system, to lens_system(|(point - eye) .
\* direction|); look_at changes only eye, direction and up; cast_ray changes
\* nothing; so the lens system is always that of the latest focus, or the
\* initial one.
C20_FrameOfCameraOperations ==
    /\ [](pcam # <<>> =>
            pcam.lens_system =
                IF lastFocus = None THEN lens_system(pcam.lens, RInt(4))
                ELSE lens_system(pcam.lens, lastFocus[1].distance))
    /\ [][/\ pop' = "focus" =>
                /\ Placement(pcam') = Placement(pcam) /\ Body(pcam') = Body(pcam)
                /\ pcam'.lens_system =
                      lens_system(pcam.lens,
                          RAbs(VDot(VSub(lastFocus'[1].point, pcam.eye), pcam.direction)))
          /\ pop' = "look_at" =>
                /\ pcam'.lens_system = pcam.lens_system /\ Body(pcam') = Body(pcam)
          /\ pop' = "cast_ray" => pcam' = pcam]_vars

\* a look_at after a focus: the camera has moved, the lens system is the focused one
C20_Witness ==
    /\ pop = "look_at" /\ lastFocus # None
    /\ pcam.lens_system # lens_system(pcam.lens, RInt(4))
    /\ pcam.lens_system # lens_system(pcam.lens, FocusDistance(pcam, lastFocus[1].point))

\* ------------------------------------------------ PhysicalCamera::cast_ray
MaxAttempts == 2

\* the values rng.sample(UnitDisc) takes in one call, by name
DrawIds == {"u1", "u2"}

\* What the ray-sphere geometry gives for a ray at a surface: a negative
\* discriminant, or an intersection on the axis, one off the axis within the
\* aperture radius, one beyond the radius
Outcomes == {"miss", "center", "edge", "outside"}

\* at the rearmost surface the ray is aimed at a point of the sphere, so the
\* discriminant is not negative
RearOutcomes == Outcomes \ {"miss"}

\* the transverse offset of the intersection, in units of the aperture radius
NormalizedOffset(outcome) ==
    CASE outcome = "center" -> P2(RInt(0), RInt(0))
      [] outcome = "edge" -> P2(Rat(-3, 4), Rat(1, 2))
      [] outcome = "outside" -> P2(RInt(2), RInt(0))

\* cast_ray reads surface.aperture as a number, the aperture's diameter: the
\* scale of the surface's Aperture
ApertureDiameter(surface) == surface.aperture.scale

\* glm::cross(&self.direction, &self.up).normalize()
Right(cam) == VNormalize(VCross(cam.direction, cam.up))

\* self.eye + self.sensor_width * x / 2. * right + self.sensor_height * y / 2. * self.up
SensorPoint(cam, x, y) ==
    VAdd(VAdd(cam.eye, VScale(Right(cam), RDiv(RMul(cam.sensor_width, x), RInt(2)))),
         VScale(cam.up, RDiv(RMul(cam.sensor_height, y), RInt(2))))

\* let intersect = p + dir * t, for the outcome the geometry gives: the point at
\* the surface's axial location with that transverse offset
Intersect(cam, surface, axial, outcome) ==
    LET r == RDiv(ApertureDiameter(surface), RInt(2))
        o == NormalizedOffset(outcome)
    IN  VAdd(VAdd(VAdd(cam.eye, VScale(cam.direction, axial)),
                  VScale(Right(cam), RMul(o[1], r))),
             VScale(cam.up, RMul(o[2], r)))

\* (intersect2camera - intersect2camera.dot(&self.direction) * self.direction).norm_squared()
axial_radius_squared(cam, point) ==
    LET intersect2camera == VSub(point, cam.eye)
        off == VSub(intersect2camera,
                    VScale(cam.direction, VDot(intersect2camera, cam.direction)))
    IN  VDot(off, off)

\* if axial_radius_squared > surface.aperture * surface.aperture / 4.
ApertureBlocks(surface, ars) ==
    RLess(RDiv(RMul(ApertureDiameter(surface), ApertureDiameter(surface)), RInt(4)), ars)

\* the surface test of one round of the `for` loop: FALSE is `valid = false; break`
SurfacePasses(cam, surface, axial, outcome) ==
    /\ outcome # "miss"
    /\ ~ApertureBlocks(surface, axial_radius_squared(cam, Intersect(cam, surface, axial, outcome)))

\* the start of an attempt that keeps the origin the failed attempt ended with
AttemptInitCarry(cam, x, y, u, old_p) ==
    [p |-> IF old_p = <<>> THEN SensorPoint(cam, x, y) ELSE old_p,
     dir |-> <<u, 0>>, axial_loc |-> RInt(0), valid |-> TRUE]

\* the start of an attempt: let mut p = sensor point, dir = (new_p - p).normalize()
\* for the draw u, axial_loc = 0., valid = true.  The direction is kept as the
\* draw it was aimed with and the number of refractions it went through.
AttemptInit(cam, x, y, u, old_p) ==
    [p |-> SensorPoint(cam, x, y), dir |-> <<u, 0>>, axial_loc |-> RInt(0), valid |-> TRUE]

\* dir = (dir_norm + new_dir_perp).normalize()
Refracted(d) == <<d[1], d[2] + 1>>

\* RgbColor::wavelength, in units of 0.1 nm, with every channel read as Green
wavelength_green(ch) == 5377

\* RgbColor::wavelength, in units of 0.1 nm (Red 656.3e-9, Green 537.7e-9, Blue 486.1e-9)
wavelength(ch) == CASE ch = 1 -> 6563 [] ch = 2 -> 5377 [] ch = 3 -> 4861

RgbColors == <<CInt(1, 0, 0), CInt(0, 1, 0), CInt(0, 0, 1)>>

\* a camera whose lens system has no surface
LensSystemEmpty == <<>>

\* the ray of an empty lens system, leaving from the eye instead of the sensor point
EmptyLensRayFromEye(cam, x, y, ch) ==
    [origin |-> cam.eye, dir |-> <<"UnitSphere", 0>>,
     color |-> RgbColors[ch], weight |-> Rat(1, 3)]

\* the `else` of `if let Some(surface) = surfaces.last()`: the sensor point p
\* with a direction rng.sample(UnitSphere), color.as_vec() and 1. / 3.
EmptyLensRay(cam, x, y, ch) ==
    [origin |-> SensorPoint(cam, x, y), dir |-> <<"UnitSphere", 0>>,
     color |-> RgbColors[ch], weight |-> Rat(1, 3)]

CastCameras ==
    {PhysicalCameraDefault(SingleLensUnit), PhysicalCameraDefault(AchromaticDoubletDefault),
     [PhysicalCameraDefault(SingleLensUnit) EXCEPT !.lens_system = LensSystemEmpty]}

\* what the geometry of a lens system of n surfaces does to each draw
OpticsTables(n) ==
    IF n = 0 THEN {<<>>}
    ELSE {t \in [DrawIds \X (1..n) -> Outcomes] :
             \A u \in DrawIds : t[<<u, n>>] \in RearOutcomes}

CastPoints == {P2(RInt(0), RInt(0)), P2(Rat(1, 2), RInt(-1))}

InitPhysCast ==
    /\ pcam \in CastCameras
    /\ pop = "cast_ray" /\ lastFocus = None
    /\ phpc = "call"
    /\ screenpt \in CastPoints
    /\ optics \in OpticsTables(Len(pcam.lens_system))
    /\ channel = 0 /\ rear = "u1" /\ surf = 0 /\ ray_p = <<>> /\ ray_dir = <<>>
    /\ axial_loc = RInt(0) /\ valid = TRUE /\ visited = <<>> /\ attempts = 0 /\ pray = <<>>
    /\ IdleRender /\ IdleHit /\ IdleTrace /\ IdleCam /\ IdlePoly /\ IdleLens /\ IdleMono /\ IdleCp /\ IdlePx

\* let color = match rng.gen_range(0..3)
CastBegin ==
    /\ phpc = "call"
    /\ channel' \in 1..3
    /\ phpc' = "loop"
    /\ UNCHANGED <<pcam, pop, lastFocus, screenpt, optics, rear, surf, ray_p, ray_dir,
                   axial_loc, valid, visited, attempts, pray>>
    /\ UNCHANGED nonPhysVars

\* a round of `loop` up to the `for`: with no surface the ray is returned at once
AttemptStart ==
    /\ phpc = "loop"
    /\ attempts' = Min(attempts + 1, MaxAttempts)
    /\ IF Len(pcam.lens_system) = 0
       THEN /\ pray' = EmptyLensRay(pcam, screenpt[1], screenpt[2], channel)
            /\ phpc' = "returned"
            /\ UNCHANGED <<rear, surf, ray_p, ray_dir, axial_loc, valid, visited>>
       ELSE /\ \E u \in DrawIds :
                 LET a == AttemptInit(pcam, screenpt[1], screenpt[2], u, ray_p)
                 IN  /\ rear' = u
                     /\ ray_p' = a.p /\ ray_dir' = a.dir
                     /\ axial_loc' = a.axial_loc /\ valid' = a.valid
            /\ surf' = Len(pcam.lens_system)
            /\ visited' = <<>>
            /\ phpc' = "surfaces"
            /\ UNCHANGED pray
    /\ UNCHANGED <<pcam, pop, lastFocus, screenpt, optics, channel>>
    /\ UNCHANGED nonPhysVars

\* one round of `for i in (0..surfaces.len()).rev()`
SurfaceStep ==
    /\ phpc = "surfaces"
    /\ LET surface == pcam.lens_system[surf]
           axial == RAdd(axial_loc, surface.thickness)
           outcome == optics[<<rear, surf>>]
       IN  /\ axial_loc' = axial
           /\ visited' = Append(visited, [i |-> surf, outcome |-> outcome,
                                          wavelength |-> wavelength(channel)])
           /\ IF SurfacePasses(pcam, surface, axial, outcome)
              THEN /\ ray_dir' = Refracted(ray_dir)
                   /\ ray_p' = Intersect(pcam, surface, axial, outcome)
                   /\ surf' = surf - 1
                   /\ phpc' = IF surf = 1 THEN "end" ELSE "surfaces"
                   /\ UNCHANGED valid
              ELSE /\ valid' = FALSE
                   /\ phpc' = "end"
                   /\ UNCHANGED <<ray_dir, ray_p, surf>>
    /\ UNCHANGED <<pcam, pop, lastFocus, screenpt, optics, channel, rear, attempts, pray>>
    /\ UNCHANGED nonPhysVars

\* if valid { break (Ray { origin: p, dir }, color.as_vec(), 1. / 3.) }
AttemptEnd ==
    /\ phpc = "end"
    /\ IF valid
       THEN /\ pray' = [origin |-> ray_p, dir |-> ray_dir,
                        color |-> RgbColors[channel], weight |-> Rat(1, 3)]
            /\ phpc' = "returned"
       ELSE /\ phpc' = "loop"
            /\ UNCHANGED pray
    /\ UNCHANGED <<pcam, pop, lastFocus, screenpt, optics, channel, rear, surf, ray_p, ray_dir,
                   axial_loc, valid, visited, attempts>>
    /\ UNCHANGED nonPhysVars

NextPhysCast ==
    \/ CastBegin
    \/ AttemptStart
    \/ SurfaceStep
    \/ AttemptEnd

SpecPhysCast == InitPhysCast /\ [][NextPhysCast]_vars

NumSurfaces == Len(pcam.lens_system)

\* the axial location of surface i: the thicknesses from the rearmost down to i
RECURSIVE AxialLocation(_, _)
AxialLocation(sys, i) ==
    IF i > Len(sys) THEN RInt(0) ELSE RAdd(sys[i].thickness, AxialLocation(sys, i + 1))

\* the discriminant was not negative and the offset is within the aperture radius
PassedSurface(outcome) ==
    /\ outcome # "miss"
    /\ LET o == NormalizedOffset(outcome)
       IN  RLeq(RAdd(RMul(o[1], o[1]), RMul(o[2], o[2])), RInt(1))

\* C14: with a non-empty lens system a ray is returned only from an attempt in
\* which every surface, rearmost to frontmost, had a non-negative discriminant
\* and passed the aperture test; the first failing surface ends the attempt, the
\* next attempt starts from the sensor point with a fresh draw, and the origin
\* returned is the intersection with the frontmost surface.
C14_ReturnOnlyFromFullTraversal ==
    (pcam # <<>> /\ NumSurfaces > 0 /\ phpc \in {"surfaces", "end", "returned"}) =>
        /\ \A k \in 1..Len(visited) :
              /\ visited[k].i = NumSurfaces - k + 1
              /\ k < Len(visited) => PassedSurface(visited[k].outcome)
        /\ (phpc = "surfaces" /\ visited = <<>>) =>
              /\ ray_p = SensorPoint(pcam, screenpt[1], screenpt[2])
              /\ ray_dir = <<rear, 0>>
              /\ axial_loc = RInt(0) /\ valid
        /\ phpc = "surfaces" => (valid /\ Len(visited) < NumSurfaces)
        /\ (phpc = "end" /\ ~valid) => ~PassedSurface(visited[Len(visited)].outcome)
        /\ phpc = "returned" =>
              /\ valid
              /\ Len(visited) = NumSurfaces
              /\ \A k \in 1..NumSurfaces : PassedSurface(visited[k].outcome)
              /\ pray.origin =
                    Intersect(pcam, pcam.lens_system[1], AxialLocation(pcam.lens_system, 1),
                              visited[NumSurfaces].outcome)
              /\ pray.dir = <<rear, NumSurfaces>>

\* a ray returned by the second attempt, after a first one that got past the
\* rearmost surface and failed further on
C14_Witness ==
    /\ phpc = "returned" /\ NumSurfaces = 3 /\ attempts = 2
    /\ \E u \in DrawIds :
          /\ u # rear
          /\ PassedSurface(optics[<<u, 3>>]) /\ ~PassedSurface(optics[<<u, 2>>])

\* containment of a normalized offset in an aperture shape
ShapeContains(shape, o) ==
    CASE shape = "Circle" -> RLeq(RAdd(RMul(o[1], o[1]), RMul(o[2], o[2])), RInt(1))
      [] shape = "Square" -> InUnitSquare(o)
      [] shape = "Poly" -> contains(TrianglePoly, o[1], o[2])

\* C15: the per-surface aperture test is containment of the intersection's
\* transverse offset, normalized by the aperture radius, in the surface's
\* aperture shape: a surface passed by a returned ray had its offset inside
\* the shape, also when the shape is a square or a polygon.
C15_ApertureTestIsShapeContainment ==
    (phpc = "returned" /\ NumSurfaces > 0) =>
        \A k \in 1..Len(visited) :
            ShapeContains(pcam.lens_system[visited[k].i].aperture.shape,
                          NormalizedOffset(visited[k].outcome))

\* for circular apertures the radius bound is the containment test
C15_CircleOnly ==
    (phpc = "returned" /\ NumSurfaces > 0 /\ pcam.lens.aperture.shape = "Circle") =>
        C15_ApertureTestIsShapeContainment

\* ------------------------------------------------ the two rejection loops
\* some candidate can be accepted
Acceptable == \E x \in DrawVals, y \in DrawVals : Len(pts) > 0 /\ contains(pts, x, y)

\* C13 (polygon aperture sampling): the loop has no cap on its rounds; the call
\* returns as soon as, and only when, a candidate is accepted; if none can be
\* accepted the call never returns, and it reports no error.
C13_UncappedRejectionLoop ==
    /\ [](ppc \in {"loop", "returned"})
    /\ [](ppc = "returned" => inside = "true")
    /\ [][(ppc = "loop" /\ inside' = "true") => ppc' = "returned"]_vars
    /\ [][(ppc = "loop" /\ rounds = MaxRounds /\ inside' # "true") => ppc' = "loop"]_vars
    /\ [](~Acceptable => ppc = "loop")

\* the same, for the builds that do not check integer overflow
C13_WithoutOverflowChecks ==
    /\ [](~overflow_checks => ppc \in {"loop", "returned"})
    /\ [](ppc = "returned" => inside = "true")
    /\ [][(ppc = "loop" /\ inside' = "true") => ppc' = "returned"]_vars
    /\ [][(ppc = "loop" /\ rounds = MaxRounds /\ inside' # "true") => ppc' = "loop"]_vars
    /\ [](~Acceptable /\ ~overflow_checks => ppc = "loop")

\* a polygon that contains no point, still sampling after MaxRounds rounds
C13_StillLooping ==
    /\ ppc = "loop" /\ pts = PointPoly /\ rounds = MaxRounds /\ ~Acceptable

\* (physical camera) a draw that passes every surface
DrawPasses(u) == \A i \in 1..NumSurfaces : PassedSurface(optics[<<u, i>>])

\* (physical camera) the call returns only from a valid attempt, never if every
\* draw fails at some surface, and goes on past MaxAttempts attempts
C13_PhysicalLoopSafety ==
    (pcam # <<>> /\ NumSurfaces > 0) =>
        /\ phpc = "returned" => (valid /\ DrawPasses(rear))
        /\ (\A u \in DrawIds : ~DrawPasses(u)) => phpc # "returned"
        /\ phpc \in {"call", "loop", "surfaces", "end", "returned"}

C13_PhysicalStillLooping ==
    /\ phpc = "loop" /\ attempts = MaxAttempts /\ NumSurfaces = 3
    /\ \A u \in DrawIds : ~DrawPasses(u)

\* ------------------------------------------- MonomialSurface::intersect
\* the upper end of the search interval: let mut r: f64 = 10000.0
FarTime == 10000

\* the closure dist, for exp = 4: y - height * (x^2 + z^2)^(exp / 2) at time t
MonoDist(s, ray, t) ==
    LET x == RAdd(ray.origin[1], RMul(t, ray.dir[1]))
        y == RAdd(ray.origin[2], RMul(t, ray.dir[2]))
        z == RAdd(ray.origin[3], RMul(t, ray.dir[3]))
        rho2 == RAdd(RMul(x, x), RMul(z, z))
    IN  RAdd(y, RNeg(RMul(s.height, RMul(rho2, rho2))))

\* The ternary search for t_max, on a ray along which dist is monotone (a
\* vertical one): it ends at the far end when the extremum looked for lies
\* there, and stays at t_min otherwise.
MonoTMax(s, ray, t_min) ==
    LET maximize == RLess(MonoDist(s, ray, t_min), RInt(0))
        rising == RLess(RInt(0), ray.dir[2])
    IN  IF maximize = rising THEN RInt(FarTime) ELSE t_min

\* The bisection between t_min and t_max, taken at its limit: the time at which
\* dist is zero on a vertical ray.
MonoRoot(s, ray) ==
    LET rho2 == RAdd(RMul(ray.origin[1], ray.origin[1]), RMul(ray.origin[3], ray.origin[3]))
    IN  RDiv(RAdd(RMul(s.height, RMul(rho2, rho2)), RNeg(ray.origin[2])), ray.dir[2])

\* ray.at(r)
RayAt(ray, t) == VAdd(ray.origin, VScale(ray.dir, t))

\* record.normal: the normalized gradient, turned against the ray
MonoNormal(s, ray, pos) ==
    LET rho2 == RAdd(RMul(pos[1], pos[1]), RMul(pos[3], pos[3]))
        n == <<RMul(RMul(s.height, RInt(4)), RMul(pos[1], rho2)), RInt(-1),
               RMul(RMul(s.height, RInt(4)), RMul(pos[3], rho2))>>
    IN  IF RLess(RInt(0), VDot(n, ray.dir)) THEN UnitDirection(VScale(n, RInt(-1)))
        ELSE UnitDirection(n)

\* `if r > record.time { return false; }` as a test for r >= record.time
BeyondRecordStrict(r, record) == RLeq(record.time, r)

\* if r > record.time { return false; }
BeyondRecord(r, record) == RLess(record.time, r)

\* MonomialSurface::intersect(ray, t_min, record): the value returned and the record after
mono_intersect(s, ray, t_min, record) ==
    LET t_max == MonoTMax(s, ray, t_min)
        r == MonoRoot(s, ray)
        pos == RayAt(ray, r)
    IN  IF RLess(MonoDist(s, ray, t_min), RInt(0)) = RLess(MonoDist(s, ray, t_max), RInt(0))
        THEN [ret |-> FALSE, record |-> record]
        ELSE IF BeyondRecord(r, record)
        THEN [ret |-> FALSE, record |-> record]
        ELSE IF RLess(RInt(1), RAdd(RMul(pos[1], pos[1]), RMul(pos[3], pos[3])))
        THEN [ret |-> FALSE, record |-> record]
        ELSE [ret |-> TRUE, record |-> [time |-> r, normal |-> MonoNormal(s, ray, pos)]]

MonomialSurfaces == [height : {RInt(1), RInt(2)}, exp : {RInt(4)}]

\* the feet of the vertical rays in the xz plane, the last outside x^2 + z^2 <= 1
RayFeet == {P2(RInt(0), RInt(0)), P2(Rat(1, 2), RInt(0)), P2(RInt(0), RInt(1)), P2(Rat(3, 2), RInt(0))}

\* the vertical rays that meet the surface s at a time in 0..MaxTime
MonoRays(s) ==
    {[origin |-> <<f[1], RAdd(RMul(s.height, RMul(RAdd(RMul(f[1], f[1]), RMul(f[2], f[2])),
                                                  RAdd(RMul(f[1], f[1]), RMul(f[2], f[2])))),
                             RInt(-(sgn * t))), f[2]>>,
      dir |-> V3(0, sgn, 0)] : f \in RayFeet, sgn \in {-1, 1}, t \in 0..MaxTime}

\* the record the scan hands in: HitRecord::new(), or an earlier object's hit
RecordsBefore ==
    {[time |-> RInt(Infinity), normal |-> <<0, 0, 0>>]}
        \cup {[time |-> RInt(t), normal |-> <<1, 0, 0>>] : t \in 1..MaxTime}

InitMono ==
    /\ msurf \in MonomialSurfaces
    /\ mray \in MonoRays(msurf)
    /\ mtmin = RInt(EPSILON)
    /\ mrec \in RecordsBefore
    /\ mres = <<>>
    /\ mpc = "ready"
    /\ IdleRender /\ IdleHit /\ IdleTrace /\ IdleCam /\ IdlePoly /\ IdleLens /\ IdlePhys /\ IdleCp /\ IdlePx

\* object.shape.intersect(&ray, EPSILON, &mut h)
MonoIntersect ==
    /\ mpc = "ready"
    /\ mres' = mono_intersect(msurf, mray, mtmin, mrec)
    /\ mpc' = "done"
    /\ UNCHANGED <<msurf, mray, mtmin, mrec>>
    /\ UNCHANGED nonMonoVars

NextMono == MonoIntersect

SpecMono == InitMono /\ [][NextMono]_vars

C19_NeverLoosens ==
    mpc = "done" =>
        /\ ~mres.ret => mres.record = mrec
        /\ mres.ret =>
              /\ RLeq(mres.record.time, mrec.time) /\ RLeq(mtmin, mres.record.time)
              /\ mres.record.time = MonoRoot(msurf, mray)

C19_EqualTimeReplaces ==
    /\ mpc = "done" /\ mres.ret /\ mres.record.time = mrec.time
    /\ mres.record.normal # mrec.normal

\* --------------------------------------- MonomialSurface::closest_point
\* The rounds of the bisection, `for _ in 0..50` in the code: a scalar of the
\* model cannot hold the 2^-50 steps of the code's last rounds.
BisectSteps == 4

RSub(p, q) == RAdd(p, RNeg(q))

RSign(q) == IF IsNaN(q) THEN 0 ELSE IF q[1] > 0 THEN 1 ELSE IF q[1] < 0 THEN -1 ELSE 0

\* glm::length(point) < 1e-12.  No scalar of the model other than 0 is below
\* 1e-12 in size, so among the model's points the test holds of the origin only.
NearOrigin(point) == point = V3(0, 0, 0)

\* point.x.hypot(point.z), for the points where it is a scalar of the model
Hypot(x, z) == RSqrt(RAdd(RMul(x, x), RMul(z, z)))

\* the interval the bisection starts from: <<l, r>>
SearchInterval(px) == IF RLeq(px, RInt(0)) THEN <<RInt(-1), RInt(0)>> ELSE <<RInt(0), RInt(1)>>

RPow3(m) == RMul(m, RMul(m, m))

RPow4(m) == RMul(RMul(m, m), RMul(m, m))

\* tang.dot(&vec) < 0.0 with tang = (m, 4 * height * m^3) and
\* vec = (px - m, py - height * m^4).  The sum is formed only when its two
\* products differ in sign; otherwise its sign is that of the products.
TangDotVecNegative(s, m, px, py) ==
    LET a == RMul(m, RSub(px, m))
        dy == RSub(py, RMul(s.height, RPow4(m)))
        sa == RSign(a)
        sb == RSign(s.height) * RSign(m) * RSign(dy)
    IN  IF sa <= 0 /\ sb <= 0 THEN sa < 0 \/ sb < 0
        ELSE IF sa >= 0 /\ sb >= 0 THEN FALSE
        ELSE RLess(RAdd(a, RMul(RMul(RInt(4), RMul(s.height, RPow3(m))), dy)), RInt(0))

\* with the two branches of the round exchanged
BisectStepSwapped(s, px, py, l, r) ==
    LET m == RDiv(RAdd(l, r), RInt(2))
    IN  IF TangDotVecNegative(s, m, px, py) THEN <<m, r>> ELSE <<l, m>>

\* one round of the bisection: <<l, r>> after it
BisectStep(s, px, py, l, r) ==
    LET m == RDiv(RAdd(l, r), RInt(2))
    IN  IF TangDotVecNegative(s, m, px, py) THEN <<l, m>> ELSE <<m, r>>

\* the point returned after the loop: l * normalize(point.x, point.z), lifted
\* onto the surface
SurfacePointAt(s, point, l) ==
    LET n == Hypot(point[1], point[3])
        xzx == RMul(l, RDiv(point[1], n))
        xzy == RMul(l, RDiv(point[3], n))
        rho2 == RAdd(RMul(xzx, xzx), RMul(xzy, xzy))
    IN  <<xzx, RMul(s.height, RMul(rho2, rho2)), xzy>>

\* the point of the surface s above the foot f
OnSurface(s, f) ==
    LET rho2 == RAdd(RMul(f[1], f[1]), RMul(f[2], f[2]))
    IN  <<f[1], RMul(s.height, RMul(rho2, rho2)), f[2]>>

\* feet inside x^2 + z^2 <= 1 whose distance from the axis is a scalar of the model
CpFeet ==
    {P2(RInt(0), RInt(0)), P2(RInt(0), RInt(1)), P2(RInt(0), RInt(-1)),
     P2(RInt(0), Rat(1, 2)), P2(Rat(1, 2), RInt(0)), P2(Rat(-1, 4), RInt(0)),
     P2(RInt(0), Rat(3, 4)), P2(Rat(3, 10), Rat(2, 5)), P2(Rat(3, 5), Rat(-4, 5)),
     P2(RInt(0), Rat(1, 3)), P2(RInt(0), Rat(-2, 3)), P2(Rat(1, 5), RInt(0))}

InitCp ==
    /\ cp_surf \in [height : {RInt(1), RInt(2)}, exp : {RInt(4)}]
    /\ cp_point \in {OnSurface(cp_surf, f) : f \in CpFeet}
    /\ cp_l = RInt(0) /\ cp_r = RInt(0) /\ cp_i = 0
    /\ cp_out = <<>>
    /\ cp_pc = "ready"
    /\ IdleRender /\ IdleHit /\ IdleTrace /\ IdleCam /\ IdlePoly /\ IdleLens /\ IdlePhys /\ IdleMono /\ IdlePx

\* the early return, or the choice of the interval
CpEnter ==
    /\ cp_pc = "ready"
    /\ IF NearOrigin(cp_point)
       THEN /\ cp_out' = cp_point /\ cp_pc' = "done"
            /\ UNCHANGED <<cp_l, cp_r>>
       ELSE /\ cp_l' = SearchInterval(Hypot(cp_point[1], cp_point[3]))[1]
            /\ cp_r' = SearchInterval(Hypot(cp_point[1], cp_point[3]))[2]
            /\ cp_pc' = "loop"
            /\ UNCHANGED cp_out
    /\ UNCHANGED <<cp_surf, cp_point, cp_i>>
    /\ UNCHANGED nonCpVars

CpRound ==
    /\ cp_pc = "loop" /\ cp_i < BisectSteps
    /\ LET n == BisectStep(cp_surf, Hypot(cp_point[1], cp_point[3]), cp_point[2], cp_l, cp_r)
       IN  cp_l' = n[1] /\ cp_r' = n[2]
    /\ cp_i' = cp_i + 1
    /\ UNCHANGED <<cp_surf, cp_point, cp_out, cp_pc>>
    /\ UNCHANGED nonCpVars

CpReturn ==
    /\ cp_pc = "loop" /\ cp_i = BisectSteps
    /\ cp_out' = SurfacePointAt(cp_surf, cp_point, cp_l)
    /\ cp_pc' = "done"
    /\ UNCHANGED <<cp_surf, cp_point, cp_l, cp_r, cp_i>>
    /\ UNCHANGED nonCpVars

NextCp == CpEnter \/ CpRound \/ CpReturn

SpecCp == InitCp /\ [][NextCp]_vars

\* the width of the bisection's interval after all its rounds
CpResolution == Rat(1, Pow2(BisectSteps))

C21_WitnessInexact ==
    /\ cp_pc = "done" /\ cp_surf.height = RInt(1)
    /\ cp_point = OnSurface(cp_surf, P2(RInt(0), Rat(1, 3)))
    /\ cp_out # cp_point

C21_WitnessOrigin ==
    /\ cp_pc = "done" /\ cp_point = V3(0, 0, 0) /\ cp_out = cp_point

\* ------------------------------------------------ claims on sample_lights
\* C22: in sample_lights an ambient light adds ambient_color x material.color
\* and casts no shadow ray; any other light casts exactly one shadow ray and its
\* term is added exactly when that ray hits nothing or its closest hit is
\* strictly farther than the light; an occluder at or before the light's
\* distance leaves the color as it was.
C22_ShadowRayDecides ==
    /\ [](/\ contrib.kind = "ambient" =>
                /\ contrib.shadow = 0
                /\ contrib.added = CMul(AmbientColor, Material(cur.material).color)
          /\ contrib.kind = "point" =>
                /\ contrib.shadow = 1
                /\ contrib.unoccluded <=>
                      (contrib.occluder = NoObject \/ contrib.time > contrib.dist)
                /\ contrib.unoccluded =>
                      contrib.added = DirectTerm(contrib.f, Intensity, contrib.cosn)
                /\ (contrib.occluder # NoObject /\ contrib.time <= contrib.dist) =>
                      contrib.added = Black)
    /\ [][(tpc = "lights" /\ tpc' = "lights") =>
             /\ contrib'.kind = (IF lights[li] = "ambient" THEN "ambient" ELSE "point")
             /\ cur'.direct = CAdd(cur.direct, contrib'.added)
             /\ (contrib'.kind = "point" /\ ~contrib'.unoccluded) => cur' = cur]_vars

\* an occluder exactly at the light's distance suppressed the light
C22_Witness ==
    /\ contrib.kind = "point" /\ contrib.occluder # NoObject
    /\ contrib.time = contrib.dist /\ ~contrib.unoccluded /\ contrib.added = Black

C22_WitnessLit ==
    /\ contrib.kind = "point" /\ contrib.occluder # NoObject
    /\ contrib.time > contrib.dist /\ contrib.added # Black

C22_WitnessAmbient ==
    /\ contrib.kind = "ambient" /\ contrib.added # Black /\ li > 1

\* --------------------------------------------- claims on the firefly clamp
\* what the invocation that returned last added to emitted + direct, in channel i
IndirectAdded(i) == RSub(ret[i], RAdd(last.emitted[i], last.direct[i]))

\* C23: at every bounce the indirect term added to the color is at most
\* FIREFLY_CLAMP in each channel (the ceiling itself when the term is NaN, as
\* with pdf = 0), whatever pdf, bsdf and the radiance estimated below are; the
\* emitted and direct terms enter the returned color as they are.
C23_IndirectClamped ==
    (tpc \in {"ret", "done"} /\ last.hit /\ last.added) =>
        \A i \in 1..3 :
            /\ RLeq(IndirectAdded(i), RInt(FIREFLY_CLAMP))
            /\ IndirectAdded(i) = RMin(last.indirect[i], RInt(FIREFLY_CLAMP))
            /\ IsNaN(last.indirect[i]) => IndirectAdded(i) = RInt(FIREFLY_CLAMP)
            /\ ~IsNaN(ret[i])

\* an indirect term above the ceiling was cut to it, and the color returned is
\* above the ceiling by the unclamped emitted and direct terms
C23_Witness ==
    /\ tpc = "ret" /\ last.hit /\ last.added
    /\ RLess(RInt(FIREFLY_CLAMP), last.indirect[1])
    /\ IndirectAdded(1) = RInt(FIREFLY_CLAMP)
    /\ RLess(RInt(FIREFLY_CLAMP), ret[1])

C23_WitnessNaN ==
    /\ tpc = "ret" /\ last.hit /\ last.added /\ IsNaN(last.indirect[3])

\* ------------------------------------------- the empty lens system
\* the vector with 1 in place ch and 0 elsewhere
OneHot(ch) == <<RInt(IF ch = 1 THEN 1 ELSE 0), RInt(IF ch = 2 THEN 1 ELSE 0),
                RInt(IF ch = 3 THEN 1 ELSE 0)>>

\* eye + sensor_width * x / 2 * right + sensor_height * y / 2 * up, written out
\* for the default frame (right = (1, 0, 0), up = (0, 1, 0))
DefaultFrameSensorPoint(cam, x, y) ==
    <<RAdd(cam.eye[1], RDiv(RMul(cam.sensor_width, x), RInt(2))),
      RAdd(cam.eye[2], RDiv(RMul(cam.sensor_height, y), RInt(2))),
      cam.eye[3]>>

\* C24: with a lens system of no surfaces cast_ray returns in its first attempt,
\* without a retry and without visiting a surface: the origin is the sensor
\* point of (x, y), the direction a draw from the unit sphere, the tag the
\* one-hot vector of the channel drawn at the start and the weight 1/3, as on
\* the lens path.
C24_EmptyLensSystemReturnsAtOnce ==
    /\ (pcam # <<>> /\ NumSurfaces = 0) =>
          /\ phpc \in {"call", "loop", "returned"}
          /\ phpc = "loop" => attempts = 0
          /\ visited = <<>>
          /\ phpc = "returned" =>
                /\ attempts = 1
                /\ pray.origin = DefaultFrameSensorPoint(pcam, screenpt[1], screenpt[2])
                /\ pray.dir = <<"UnitSphere", 0>>
                /\ pray.color = OneHot(channel)
                /\ pray.weight = Rat(1, 3)
    /\ (pcam # <<>> /\ phpc = "returned") =>
          /\ pray.color = OneHot(channel) /\ pray.weight = Rat(1, 3)

C24_Witness ==
    /\ pcam # <<>> /\ NumSurfaces = 0 /\ phpc = "returned" /\ attempts = 1
    /\ screenpt = P2(Rat(1, 2), RInt(-1)) /\ pray.origin # pcam.eye /\ channel = 2

\* ------------------------------------------------ the channel of a cast
\* the wavelength that belongs to a one-hot tag, in units of 0.1 nm
TagWavelength(tag) ==
    CASE tag = CInt(1, 0, 0) -> 6563
      [] tag = CInt(0, 1, 0) -> 5377
      [] tag = CInt(0, 0, 1) -> 4861

\* C27: the channel is drawn once per call, before the retry loop, and no
\* attempt changes it; the ray returned carries one of the three one-hot tags
\* with weight 1/3, and the tag's wavelength is the one used at every surface
\* of the accepted attempt.
C27_OneChannelPerCall ==
    /\ [](pcam # <<>> =>
            /\ phpc # "call" => channel \in 1..3
            /\ phpc \in {"surfaces", "end", "returned"} =>
                  \A k \in 1..Len(visited) : visited[k].wavelength = wavelength(channel)
            /\ phpc = "returned" =>
                  /\ pray.color \in {CInt(1, 0, 0), CInt(0, 1, 0), CInt(0, 0, 1)}
                  /\ pray.color = OneHot(channel)
                  /\ pray.weight = Rat(1, 3)
                  /\ \A k \in 1..Len(visited) :
                        visited[k].wavelength = TagWavelength(pray.color))
    /\ [][phpc # "call" => channel' = channel]_vars

\* a blue ray returned by the second attempt through three surfaces
C27_Witness ==
    /\ pcam # <<>> /\ phpc = "returned" /\ attempts = 2 /\ NumSurfaces = 3
    /\ channel = 3 /\ Len(visited) = 3

\* ------------------------------------- termination of iterative_render
\* the steps of one round of the while loop: the test, each row's start and
\* finish, collect, add_samples, the callback
RoundSteps == 2 * height + 4

\* the rounds the loop still has to start, with d samples to go
RoundsLeft(d) == IF d <= 0 THEN 0 ELSE CeilDiv(d, callback_interval)

\* the steps the rows of the current pass still take
RowStepsLeft ==
    2 * Cardinality({y \in Rows : worker[y] = "idle"})
        + Cardinality({y \in Rows : worker[y] = "running"})

\* an upper bound on the steps iterative_render(k, ..) still takes, for k >= 1
RenderRank ==
    CASE pc = "enter" -> RoundsLeft(num_samples) * RoundSteps + 2
      [] pc = "while" -> RoundsLeft(num_samples - iteration) * RoundSteps + 1
      [] pc = "par" ->
            RoundsLeft(num_samples - iteration - steps) * RoundSteps + 1 + RowStepsLeft + 3
      [] pc = "merge" -> RoundsLeft(num_samples - iteration - steps) * RoundSteps + 1 + 2
      [] pc = "callback" -> RoundsLeft(num_samples - iteration) * RoundSteps + 1 + 1
      [] OTHER -> 0

InFlight(pcs) == IF pc \in pcs THEN 1 ELSE 0

\* C25: iterative_render(k, ..) with k >= 1 terminates for every num_samples:
\* every step lowers a non-negative bound on the steps left, which is 0 only
\* when the call has returned.  With k = 0 and num_samples > 0 it never returns:
\* the counter stays 0, the loop test passes every time, every round merges a
\* pass of 0 samples into the Buffer and calls callback(0, buffer).
C25_TerminatesUnlessZeroInterval ==
    /\ []((Iterative /\ callback_interval >= 1) =>
            /\ RenderRank >= 0
            /\ RenderRank = 0 <=> pc = "done"
            /\ pc \in {"enter", "while", "par", "merge", "callback", "done"})
    /\ [][(Iterative /\ callback_interval >= 1) => RenderRank' < RenderRank]_vars
    /\ []((Iterative /\ callback_interval = 0 /\ num_samples > 0) =>
            /\ pc # "done"
            /\ iteration = 0 /\ iteration < num_samples
            /\ \A i \in 1..Len(chunks) : chunks[i] = 0
            /\ \A i \in 1..Len(calls) : calls[i] = 0
            /\ buffer.n = Len(chunks) - InFlight({"par", "merge"})
            /\ Len(calls) = Len(chunks) - InFlight({"par", "merge", "callback"}))
    /\ [][(Iterative /\ callback_interval = 0 /\ num_samples > 0 /\ pc = "callback") =>
             (pc' = "while" /\ calls' = Append(calls, 0))]_vars

\* a call with k >= 2 that returned after a short last round
C25_Witness ==
    /\ Iterative /\ pc = "done" /\ callback_interval = 2 /\ num_samples = 3
    /\ Len(calls) = 2 /\ height >= 2

\* k = 0: still in the loop after MaxSamples + 1 callbacks, each with 0
C25_WitnessZeroInterval ==
    /\ Iterative /\ callback_interval = 0 /\ num_samples = 1
    /\ pc = "while" /\ Len(calls) = MaxSamples + 1 /\ buffer.n = MaxSamples + 1

\* ------------------------------------------------- the batch of a pass
\* C26: the batch handed to add_samples holds width x height entries in
\* row-major order: entry y * width + x is the color the worker of row y
\* computed for pixel (x, y) with get_color, whatever the order in which the
\* row workers started and finished.
C26_BatchRowMajor ==
    /\ [](pc = "merge" =>
            /\ Len(colors) = width * height
            /\ \A y \in Rows : \A x \in 0..(width - 1) :
                  /\ colors[y * width + x + 1] = slot[y][x + 1]
                  /\ (Len(chunks) = 1 /\ steps > 0) =>
                        colors[y * width + x + 1] =
                            CScale(CDiv(sampleSum[y * width + x + 1], RInt(steps)),
                                   RInt(Pow2(ExposureValue))))
    /\ [][\A y \in Rows :
             (pc = "par" /\ worker[y] = "running" /\ worker'[y] = "done") =>
                 /\ Len(slot'[y]) = width
                 /\ \A x \in 0..(width - 1) :
                       \E r \in RngStates :
                           slot'[y][x + 1] = get_color(x, y, steps, r).color]_vars
    /\ [][(pc = "merge" /\ buffer' # buffer) => buffer' = add_samples(buffer, colors)]_vars

\* a batch of two rows of two pixels whose rows differ
C26_Witness ==
    /\ pc = "merge" /\ width = 2 /\ height = 2 /\ steps > 0
    /\ slot[0] # slot[1] /\ colors[1] # colors[3]

\* ---------------------------------------- the discriminant and the gap
\* C28: for a lens of positive focal length f the distance solved for is at
\* least 4f, so the discriminant, d * (d - 4f), is never negative and the
\* no-real-root branch is not taken; the clearance is the image distance only
\* when both roots are at or below it.
C28_DiscriminantNeverNegative ==
    (lpc = "called" /\ RLess(RInt(0), focal_length(lens))) =>
        LET f == focal_length(lens)
            od == ClampedDistance(lens, lens_d)
            disc == Discriminant(lens, od)
            img == ImageDistanceOf(lens, lens_sys)
        IN  /\ RLeq(RMul(RInt(4), f), od) /\ RLeq(lens_d, od)
            /\ od = lens_d \/ od = RMul(RInt(4), f)
            /\ disc = RMul(od, RSub(od, RMul(RInt(4), f)))
            /\ RLeq(RInt(0), disc)
            /\ img \in {SmallerRoot(lens, od), LargerRoot(lens, od), Clearance(lens)}
            /\ img = Clearance(lens) =>
                  (RLeq(SmallerRoot(lens, od), Clearance(lens))
                      /\ RLeq(LargerRoot(lens, od), Clearance(lens)))

\* a request below 4f, raised to 4f: the discriminant is 0
C28_Witness ==
    /\ lpc = "called" /\ RLess(RInt(0), focal_length(lens))
    /\ RLess(lens_d, RMul(RInt(4), focal_length(lens)))
    /\ Discriminant(lens, ClampedDistance(lens, lens_d)) = RInt(0)
    /\ ImageDistanceOf(lens, lens_sys) = RMul(RInt(2), focal_length(lens))

\* the thickness of the last, sensor-facing surface
RearGap(sys) == sys[Len(sys)].thickness

C29_WitnessSingle ==
    /\ lpc = "called" /\ lens.kind = "SingleLens"
    /\ RLeq(SmallerRoot(lens, ClampedDistance(lens, lens_d)), Clearance(lens))
    /\ RLess(Rat(2, 10), RearGap(lens_sys))

\* ------------------------------------------- get_color's screen coordinates
\* a u32 value, and the result of a u32 operation that went below 0 (a panic,
\* or a wrapped value, by the build)
U32(n) == [ok |-> TRUE, v |-> n]

Underflowed == [ok |-> FALSE, v |-> 0]

U32Sub(a, b) == IF ~a.ok \/ ~b.ok \/ a.v < b.v THEN Underflowed ELSE U32(a.v - b.v)

U32Mul(a, b) == IF ~a.ok \/ ~b.ok THEN Underflowed ELSE U32(a.v * b.v)

\* 2 * x + 1
XNumerator(x) == U32(2 * x + 1)

\* the numerator counted from the row below: 2 * (height - y - 1) - 1
YNumeratorRowBelow(h, y) == U32Sub(U32Mul(U32(2), U32Sub(U32Sub(U32(h), U32(y)), U32(1))), U32(1))

\* 2 * (self.height - y) - 1
YNumerator(h, y) == U32Sub(U32Mul(U32(2), U32Sub(U32(h), U32(y))), U32(1))

\* std::cmp::max(self.width, self.height) as f64
Dim(w, h) == IF w < h THEN h ELSE w

\* (numerator as f64 - size as f64) / dim; an overflowed numerator gives no value
Normalized(num, size, dim) ==
    IF ~num.ok THEN NaN ELSE RDiv(RInt(num.v - size), RInt(dim))

\* rng.gen_range((-1.0 / dim)..(1.0 / dim)): values of the half-open range
Jitters(dim) == {Rat(-1, dim), Rat(-1, 2 * dim), RInt(0), Rat(1, 2 * dim), Rat(3, 4 * dim)}

InitPx ==
    /\ px_w \in 1..MaxWidth
    /\ px_h \in 1..MaxHeight
    /\ px_x \in 0..(px_w - 1)
    /\ px_y \in 0..(px_h - 1)
    /\ px_iter \in 0..MaxSamples
    /\ px_i = 0 /\ px_num = <<>> /\ px_n = <<>> /\ px_arg = <<>> /\ px_casts = 0
    /\ px_pc = "enter"
    /\ IdleRender /\ IdleHit /\ IdleTrace /\ IdleCam /\ IdlePoly /\ IdleLens /\ IdlePhys /\ IdleMono /\ IdleCp

\* let dim, xn, yn
PxEnter ==
    /\ px_pc = "enter"
    /\ px_num' = <<XNumerator(px_x), YNumerator(px_h, px_y)>>
    /\ px_n' = <<Normalized(XNumerator(px_x), px_w, Dim(px_w, px_h)),
                 Normalized(YNumerator(px_h, px_y), px_h, Dim(px_w, px_h))>>
    /\ px_pc' = "loop"
    /\ UNCHANGED <<px_w, px_h, px_x, px_y, px_iter, px_i, px_arg, px_casts>>
    /\ UNCHANGED nonPxVars

\* one round of `for _ in 0..iterations`: dx, dy and the cast_ray call
PxSample ==
    /\ px_pc = "loop" /\ px_i < px_iter
    /\ \E dx \in Jitters(Dim(px_w, px_h)), dy \in Jitters(Dim(px_w, px_h)) :
          px_arg' = <<RAdd(px_n[1], dx), RAdd(px_n[2], dy)>>
    /\ px_casts' = px_casts + 1
    /\ px_i' = px_i + 1
    /\ UNCHANGED <<px_w, px_h, px_x, px_y, px_iter, px_num, px_n, px_pc>>
    /\ UNCHANGED nonPxVars

\* the loop is over: color / iterations * 2^exposure_value is returned
PxReturn ==
    /\ px_pc = "loop" /\ px_i = px_iter
    /\ px_pc' = "done"
    /\ UNCHANGED <<px_w, px_h, px_x, px_y, px_iter, px_i, px_num, px_n, px_arg, px_casts>>
    /\ UNCHANGED nonPxVars

NextPx == PxEnter \/ PxSample \/ PxReturn

SpecPx == InitPx /\ [][NextPx]_vars

InUnitInterval(q) == RLeq(RInt(-1), q) /\ RLeq(q, RInt(1))

\* C30: for every pixel of the image and every jitter, the coordinates passed
\* to cast_ray lie in [-1, 1] x [-1, 1]; the u32 expression 2 * (height - y) - 1
\* does not underflow; and cast_ray is called once in every round of the loop,
\* iterations times in all.
C30_ScreenCoordinatesInRange ==
    /\ [](px_pc \in {"loop", "done"} =>
            /\ px_num[2].ok /\ px_num[2].v >= 1
            /\ px_num[2].v = 2 * (px_h - px_y) - 1
            /\ px_casts = px_i
            /\ px_arg # <<>> => (InUnitInterval(px_arg[1]) /\ InUnitInterval(px_arg[2]))
            /\ px_pc = "done" => px_casts = px_iter)
    /\ [][px_arg' # px_arg => px_casts' = px_casts + 1]_vars
    /\ [][px_casts' # px_casts => (px_casts' = px_casts + 1 /\ px_i' = px_i + 1)]_vars

\* the bottom-left pixel of the widest image with the jitter at its lower end:
\* the coordinate passed is -1 itself
C30_Witness ==
    /\ px_pc = "done" /\ px_iter >= 2 /\ px_casts = px_iter
    /\ px_w = MaxWidth /\ px_x = 0 /\ px_y = px_h - 1 /\ px_h = MaxHeight
    /\ px_arg[1] = RInt(-1) /\ px_num[2] = U32(1)

====
